---- MODULE Spec2Model ----
(***************************************************************************)
(* Weather resolution and caching core of bio-adapt                        *)
(* (functions/lib/weather.ts, schema version v3).                          *)
(*                                                                         *)
(* Strings are sequences of one-character tokens, so that trimming,        *)
(* lower-casing, splitting and concatenation are computed and not assumed. *)
(* A CJK character is written as the token "uXXXX" of its UTF-16 code unit.*)
(* An optional value is a sequence of length at most one: None is the      *)
(* undefined / absent property, Some(v) a present one.                     *)
(***************************************************************************)
EXTENDS Integers, Sequences, FiniteSets, TLC

None == << >>
Some(v) == << v >>
IsSome(o) == o # << >>
Val(o) == o[1]

Min2(a, b) == IF a <= b THEN a ELSE b
Max2(a, b) == IF a >= b THEN a ELSE b

\* ------------------------------------------------------------------------
\* Program constants
\* ------------------------------------------------------------------------
DEFAULT_TTL_SECONDS == 600
DEFAULT_TIMEOUT_MS == 4000
WEATHER_VERSION == << "v", "3" >>

TEMP_MIN == 8
TEMP_MAX == 32
HUMIDITY_MIN == 30
HUMIDITY_MAX == 85

\* '未知', the placeholder city of getWeatherByCity
PLACEHOLDER_CITY == << "u672A", "u77E5" >>

\* ------------------------------------------------------------------------
\* String primitives (String.prototype.trim / toLowerCase / charCodeAt)
\* ------------------------------------------------------------------------
Whitespace == { " " }

LowerOf == [ A |-> "a", C |-> "c", H |-> "h", K |-> "k", M |-> "m",
             O |-> "o", S |-> "s", U |-> "u" ]

toLowerCaseChar(ch) == IF ch \in DOMAIN LowerOf THEN LowerOf[ch] ELSE ch

toLowerCase(s) == [ i \in 1..Len(s) |-> toLowerCaseChar(s[i]) ]

RECURSIVE trimStart(_)
trimStart(s) ==
  IF s # << >> /\ Head(s) \in Whitespace THEN trimStart(Tail(s)) ELSE s

RECURSIVE trimEnd(_)
trimEnd(s) ==
  IF s # << >> /\ s[Len(s)] \in Whitespace
    THEN trimEnd(SubSeq(s, 1, Len(s) - 1))
    ELSE s

trim(s) == trimEnd(trimStart(s))

\* UTF-16 code units of the characters the model uses
CharCodes == [ a |-> 97, c |-> 99, h |-> 104, k |-> 107, m |-> 109,
               o |-> 111, s |-> 115, u |-> 117,
               A |-> 65, C |-> 67, H |-> 72, K |-> 75, M |-> 77,
               O |-> 79, S |-> 83, U |-> 85,
               u672A |-> 26410, u77E5 |-> 30693,
               u4E0A |-> 19978, u6D77 |-> 28023,
               u82CF |-> 33487, u5DDE |-> 24030, uFF0C |-> 65292,
               u5317 |-> 21271, u4EAC |-> 20140 ]

charCodeAt(ch) ==
  CASE ch = " " -> 32
    [] ch = "," -> 44
    [] ch = ":" -> 58
    [] ch = "1" -> 49
    [] ch = "2" -> 50
    [] OTHER -> CharCodes[ch]

\* ------------------------------------------------------------------------
\* normalizeCity
\* ------------------------------------------------------------------------
normalizeCity(city) == toLowerCase(trim(city))

\* ------------------------------------------------------------------------
\* hashString: 32-bit FNV-1a.  A 32-bit word is kept as two 16-bit halves
\* [hi, lo] so that every intermediate value stays below 2^31.
\* ------------------------------------------------------------------------
HALF == 65536

RECURSIVE BitXor(_, _)
BitXor(a, b) ==
  IF a = 0 THEN b
  ELSE IF b = 0 THEN a
  ELSE 2 * BitXor(a \div 2, b \div 2) + (((a % 2) + (b % 2)) % 2)

\* 2166136261 = 0x811C9DC5
FNV_OFFSET == [ hi |-> 33052, lo |-> 40389 ]
\* 16777619 = 0x01000193 = 256 * 65536 + 403
FNV_PRIME_HI == 256
FNV_PRIME_LO == 403

\* hash ^= code  (code < 2^16 touches the low half only)
Xor32(h, code) == [ hi |-> h.hi, lo |-> BitXor(h.lo, code) ]

\* Math.imul(hash, 16777619) read modulo 2^32
Imul32(h) ==
  LET p0 == h.lo * FNV_PRIME_LO
      carry == p0 \div HALF
  IN  [ hi |-> (h.hi * FNV_PRIME_LO + h.lo * FNV_PRIME_HI + carry) % HALF,
        lo |-> p0 % HALF ]

\* mutant: FNV-1 order, the multiplication before the xor
RECURSIVE hashFoldMulFirst(_, _)
hashFoldMulFirst(h, s) ==
  IF s = << >> THEN h
  ELSE hashFoldMulFirst(Xor32(Imul32(h), charCodeAt(Head(s))), Tail(s))

RECURSIVE hashFold(_, _)
hashFold(h, s) ==
  IF s = << >> THEN h
  ELSE hashFold(Imul32(Xor32(h, charCodeAt(Head(s)))), Tail(s))

hashString(value) == hashFold(FNV_OFFSET, value)

\* (hash % m) for a two-half word
Mod32(h, m) == ((h.hi % m) * (HALF % m) + (h.lo % m)) % m
\* hash >>> 8 and hash >>> 16
Shr8(h) == h.hi * 256 + (h.lo \div 256)
Shr16(h) == h.hi

\* ------------------------------------------------------------------------
\* buildWeatherCacheKey
\* ------------------------------------------------------------------------
Digits == << "0", "1", "2", "3", "4", "5", "6", "7", "8", "9" >>

\* String(n) of a non-negative integer: its decimal digits
RECURSIVE NumToStr(_)
NumToStr(n) ==
  IF n < 10 THEN << Digits[n + 1] >>
  ELSE NumToStr(n \div 10) \o << Digits[(n % 10) + 1] >>

\* the characters of a WeatherSource value
SourceChars(source) ==
  IF source = "mock" THEN << "m", "o", "c", "k" >>
  ELSE << "o", "p", "e", "n", "-", "m", "e", "t", "e", "o" >>

\* mutant: the version tag is left out of the key
keyWithoutVersion(version, provider, normalizedCity, bucket) ==
  << "w", "e", "a", "t", "h", "e", "r", ":" >>
    \o SourceChars(provider) \o << ":" >> \o normalizedCity \o << ":" >>
    \o NumToStr(bucket)

\* the template literal of buildWeatherCacheKey, as evaluated by a build
\* whose WEATHER_VERSION is version
keyUnderVersion(version, provider, normalizedCity, bucket) ==
  << "w", "e", "a", "t", "h", "e", "r", ":" >> \o version \o << ":" >>
    \o SourceChars(provider) \o << ":" >> \o normalizedCity \o << ":" >>
    \o NumToStr(bucket)

\* mutant: no delimiter between the city and the bucket
buildKeyNoDelimiter(provider, normalizedCity, bucket) ==
  << "w", "e", "a", "t", "h", "e", "r", ":" >> \o WEATHER_VERSION \o << ":" >>
    \o SourceChars(provider) \o << ":" >> \o normalizedCity \o NumToStr(bucket)

buildWeatherCacheKey(provider, normalizedCity, bucket) ==
  keyUnderVersion(WEATHER_VERSION, provider, normalizedCity, bucket)

\* ------------------------------------------------------------------------
\* clamp, mapWeatherCode
\* ------------------------------------------------------------------------
\* mutant: the upper bound is not applied
clampNoUpper(value, min, max) == Max2(min, value)

clamp(value, min, max) == Max2(min, Min2(max, value))

\* labels: clear '晴', cloudy '多云', overcast '阴', light-rain '小雨',
\* light-snow '小雪', showers '阵雨', snow-showers '阵雪', fog '多雾',
\* unknown '未知'
\* mutant: the thresholds are exclusive upper bounds
mapWeatherCodeStrict(code) ==
  IF ~IsSome(code) THEN "unknown"
  ELSE IF Val(code) = 0 THEN "clear"
  ELSE IF Val(code) < 3 THEN "cloudy"
  ELSE IF Val(code) < 48 THEN "overcast"
  ELSE IF Val(code) < 67 THEN "light-rain"
  ELSE IF Val(code) < 77 THEN "light-snow"
  ELSE IF Val(code) < 82 THEN "showers"
  ELSE IF Val(code) < 86 THEN "snow-showers"
  ELSE "unknown"

mapWeatherCode(code) ==
  IF ~IsSome(code) THEN "unknown"
  ELSE IF Val(code) = 0 THEN "clear"
  ELSE IF Val(code) <= 3 THEN "cloudy"
  ELSE IF Val(code) <= 48 THEN "overcast"
  ELSE IF Val(code) <= 67 THEN "light-rain"
  ELSE IF Val(code) <= 77 THEN "light-snow"
  ELSE IF Val(code) <= 82 THEN "showers"
  ELSE IF Val(code) <= 86 THEN "snow-showers"
  ELSE "unknown"

\* ------------------------------------------------------------------------
\* Time strings.  [fmt |-> "ms", v |-> t] is Date(t).toISOString();
\* [fmt |-> "min", v |-> m] is the provider's "YYYY-MM-DDTHH:MM" of minute m.
\* ------------------------------------------------------------------------
MS_PER_HOUR == 3600000

toISOString(now) == [ fmt |-> "ms", v |-> now ]

\* new Date().toISOString().slice(0, 13) + ':00'
topOfHour(now) == [ fmt |-> "min", v |-> (now \div MS_PER_HOUR) * 60 ]

\* ------------------------------------------------------------------------
\* getMockWeather
\* ------------------------------------------------------------------------
MOCK_CONDITIONS == << "clear", "cloudy", "overcast", "light-rain", "showers", "fog" >>

\* mutant: the hash is taken of the raw city
getMockWeatherOfRaw(city, normalizedCity, now) ==
  LET hash == hashString(city)
  IN  [ condition |-> MOCK_CONDITIONS[(Shr16(hash) % Len(MOCK_CONDITIONS)) + 1],
        temperatureC |-> 8 + Mod32(hash, 25),
        humidity |-> 30 + (Shr8(hash) % 56),
        source |-> "mock",
        observedAt |-> Some(toISOString(now)),
        geocode |-> None,
        cacheStatus |-> None,
        cacheKey |-> None,
        normalizedCity |-> None ]

\* now is the reading of the clock by new Date()
getMockWeather(city, normalizedCity, now) ==
  LET hash == hashString(normalizedCity)
  IN  [ condition |-> MOCK_CONDITIONS[(Shr16(hash) % Len(MOCK_CONDITIONS)) + 1],
        temperatureC |-> 8 + Mod32(hash, 25),
        humidity |-> 30 + (Shr8(hash) % 56),
        source |-> "mock",
        observedAt |-> Some(toISOString(now)),
        geocode |-> None,
        cacheStatus |-> None,
        cacheKey |-> None,
        normalizedCity |-> None ]

\* ------------------------------------------------------------------------
\* parseCityAndAdmin, CITY_NAME_MAP
\* ------------------------------------------------------------------------
\* ',' and the full-width comma U+FF0C
Commas == { ",", "uFF0C" }

\* raw.split(/[,，]/)
RECURSIVE splitComma(_, _)
splitComma(s, cur) ==
  IF s = << >> THEN << cur >>
  ELSE IF Head(s) \in Commas THEN << cur >> \o splitComma(Tail(s), << >>)
  ELSE splitComma(Tail(s), Append(cur, Head(s)))

parseCityAndAdmin(raw) ==
  LET trimmed == trim(raw)
      pieces == splitComma(trimmed, << >>)
      trimmedPieces == [ i \in 1..Len(pieces) |-> trim(pieces[i]) ]
      NonEmpty(x) == x # << >>
      parts == SelectSeq(trimmedPieces, NonEmpty)
  IN  [ name |-> IF Len(parts) >= 1 THEN parts[1] ELSE trimmed,
        admin1 |-> IF Len(parts) >= 2 THEN Some(parts[2]) ELSE None ]

\* the entries of CITY_NAME_MAP over the model's alphabet:
\* 上海 -> Shanghai (written Sh here), 苏州 -> Suzhou (written Su here)
CITY_NAME_MAP ==
  { << << "u4E0A", "u6D77" >>, << "S", "h" >> >>,
    << << "u82CF", "u5DDE" >>, << "S", "u" >> >> }

mapCityName(name) ==
  IF \E e \in CITY_NAME_MAP : e[1] = name
    THEN (CHOOSE e \in CITY_NAME_MAP : e[1] = name)[2]
    ELSE name

\* ------------------------------------------------------------------------
\* selectGeocodeResult
\* ------------------------------------------------------------------------
OrEmpty(o) == IF IsSome(o) THEN Val(o) ELSE << >>

OrZero(o) == IF IsSome(o) THEN Val(o) ELSE 0

\* mutant: the country step is left out
selectNoCountry(results, targetName, targetAdmin) ==
  LET lowerName == toLowerCase(targetName)
      AdminMatches(item) ==
        toLowerCase(OrEmpty(item.admin1)) = toLowerCase(OrEmpty(targetAdmin))
      adminCandidates == SelectSeq(results, AdminMatches)
      candidates ==
        IF IsSome(targetAdmin) /\ Val(targetAdmin) # << >> /\ Len(adminCandidates) > 0
          THEN adminCandidates
          ELSE results
      NameMatches(item) == toLowerCase(OrEmpty(item.name)) = lowerName
      exact == SelectSeq(candidates, NameMatches)
  IN  IF Len(exact) > 0 THEN Some(exact[1])
      ELSE IF Len(candidates) > 0 THEN Some(candidates[1])
      ELSE None

\* mutant: the admin region is compared as written, case included
selectAdminCaseSensitive(results, targetName, targetAdmin) ==
  LET lowerName == toLowerCase(targetName)
      IsCN(item) == item.country_code = Some("CN")
      cnCandidates == SelectSeq(results, IsCN)
      afterCountry == IF Len(cnCandidates) > 0 THEN cnCandidates ELSE results
      AdminMatches(item) == OrEmpty(item.admin1) = OrEmpty(targetAdmin)
      adminCandidates == SelectSeq(afterCountry, AdminMatches)
      candidates ==
        IF IsSome(targetAdmin) /\ Val(targetAdmin) # << >> /\ Len(adminCandidates) > 0
          THEN adminCandidates
          ELSE afterCountry
      NameMatches(item) == toLowerCase(OrEmpty(item.name)) = lowerName
      exact == SelectSeq(candidates, NameMatches)
  IN  IF Len(exact) > 0 THEN Some(exact[1])
      ELSE IF Len(candidates) > 0 THEN Some(candidates[1])
      ELSE None

\* mutant: the provider's first candidate, as the build that asked for one
\* candidate only took it
selectFirst(results, targetName, targetAdmin) ==
  IF Len(results) > 0 THEN Some(results[1]) ELSE None

selectGeocodeResult(results, targetName, targetAdmin) ==
  LET lowerName == toLowerCase(targetName)
      IsCN(item) == item.country_code = Some("CN")
      cnCandidates == SelectSeq(results, IsCN)
      afterCountry == IF Len(cnCandidates) > 0 THEN cnCandidates ELSE results
      AdminMatches(item) ==
        toLowerCase(OrEmpty(item.admin1)) = toLowerCase(OrEmpty(targetAdmin))
      adminCandidates == SelectSeq(afterCountry, AdminMatches)
      candidates ==
        IF IsSome(targetAdmin) /\ Val(targetAdmin) # << >> /\ Len(adminCandidates) > 0
          THEN adminCandidates
          ELSE afterCountry
      NameMatches(item) == toLowerCase(OrEmpty(item.name)) = lowerName
      exact == SelectSeq(candidates, NameMatches)
  IN  IF Len(exact) > 0 THEN Some(exact[1])
      ELSE IF Len(candidates) > 0 THEN Some(candidates[1])
      ELSE None

\* ------------------------------------------------------------------------
\* getWeatherFromOpenMeteo, in its two network steps.
\* A response is [kind, body]: "reject" (fetch rejects: network error, or
\* the abort fired by fetchWithTimeout), "notok" (non-2xx), "badjson"
\* (json() rejects) or "ok" with the parsed body.
\* A step answers [kind |-> "throw" | "null" | "value", value |-> optional].
\* ------------------------------------------------------------------------
Throw == [ kind |-> "throw", value |-> None ]
Null == [ kind |-> "null", value |-> None ]
Value(v) == [ kind |-> "value", value |-> Some(v) ]

\* mutant: the chosen candidate is taken without the coordinate test
geocodeStepNoCoordinateTest(city, resp) ==
  LET parsed == parseCityAndAdmin(city)
      mappedName == mapCityName(parsed.name)
  IN  IF resp.kind \in { "reject", "badjson" } THEN Throw
      ELSE IF resp.kind = "notok" THEN Null
      ELSE
        LET location ==
              IF IsSome(resp.body.results)
                THEN selectGeocodeResult(Val(resp.body.results), mappedName, parsed.admin1)
                ELSE None
        IN  IF ~IsSome(location) THEN Null ELSE Value(Val(location))

\* mutant: when the chosen candidate has no coordinates, the first candidate
\* that has them is taken
geocodeStepNextWithCoords(city, resp) ==
  LET parsed == parseCityAndAdmin(city)
      mappedName == mapCityName(parsed.name)
      HasCoords(item) == IsSome(item.latitude) /\ IsSome(item.longitude)
  IN  IF resp.kind \in { "reject", "badjson" } THEN Throw
      ELSE IF resp.kind = "notok" THEN Null
      ELSE
        LET location ==
              IF IsSome(resp.body.results)
                THEN selectGeocodeResult(Val(resp.body.results), mappedName, parsed.admin1)
                ELSE None
            located == SelectSeq(OrEmpty(resp.body.results), HasCoords)
        IN  IF IsSome(location) /\ HasCoords(Val(location)) THEN Value(Val(location))
            ELSE IF Len(located) > 0 THEN Value(located[1])
            ELSE Null

\* lines 148-166: geocode request, candidate choice, coordinate check
geocodeStep(city, resp) ==
  LET parsed == parseCityAndAdmin(city)
      mappedName == mapCityName(parsed.name)
  IN  IF resp.kind \in { "reject", "badjson" } THEN Throw
      ELSE IF resp.kind = "notok" THEN Null
      ELSE
        LET location ==
              IF IsSome(resp.body.results)
                THEN selectGeocodeResult(Val(resp.body.results), mappedName, parsed.admin1)
                ELSE None
        IN  IF ~IsSome(location) \/ ~IsSome(Val(location).latitude)
                 \/ ~IsSome(Val(location).longitude)
              THEN Null
              ELSE Value(Val(location))

\* optArr?.[index] for a zero-based index
At(optArr, index) ==
  IF IsSome(optArr) /\ index + 1 <= Len(Val(optArr))
    THEN Some(Val(optArr)[index + 1])
    ELSE None

\* arr.findIndex((value) => value === target), -1 when there is none
findIndex(arr, target) ==
  IF \E i \in 1..Len(arr) : arr[i] = target
    THEN (CHOOSE i \in 1..Len(arr) :
            arr[i] = target /\ \A j \in 1..(i - 1) : arr[j] # target) - 1
    ELSE -1

NoCurrent ==
  [ temperature_2m |-> None, relative_humidity_2m |-> None,
    weather_code |-> None, time |-> None ]
NoHourly ==
  [ time |-> None, temperature_2m |-> None, relative_humidity_2m |-> None,
    weather_code |-> None ]

\* mutant: the hourly series is always read at index 0
forecastStepIndexZero(location, resp, now) ==
  IF resp.kind \in { "reject", "badjson" } THEN Throw
  ELSE IF resp.kind = "notok" THEN Null
  ELSE
    LET data == resp.body
        current == IF IsSome(data.current) THEN Val(data.current) ELSE NoCurrent
        hourly == IF IsSome(data.hourly) THEN Val(data.hourly) ELSE NoHourly
        useHourly ==
          ~IsSome(current.temperature_2m) \/ ~IsSome(current.relative_humidity_2m)
        temperatureC ==
          IF useHourly THEN At(hourly.temperature_2m, 0) ELSE current.temperature_2m
        humidity ==
          IF useHourly THEN At(hourly.relative_humidity_2m, 0)
          ELSE current.relative_humidity_2m
        weatherCode ==
          IF useHourly THEN At(hourly.weather_code, 0) ELSE current.weather_code
        observedAt == IF useHourly THEN At(hourly.time, 0) ELSE current.time
    IN  IF ~IsSome(temperatureC) \/ ~IsSome(humidity) THEN Null
        ELSE Value([ condition |-> mapWeatherCode(weatherCode),
                     temperatureC |-> Val(temperatureC),
                     humidity |-> Val(humidity),
                     source |-> "open-meteo",
                     observedAt |-> observedAt,
                     geocode |-> Some([ name |-> location.name,
                                        country |-> location.country,
                                        admin1 |-> location.admin1,
                                        latitude |-> location.latitude,
                                        longitude |-> location.longitude,
                                        timezone |-> location.timezone ]),
                     cacheStatus |-> None,
                     cacheKey |-> None,
                     normalizedCity |-> None ])

\* mutant: in the hourly branch a value that the current reading has is kept
forecastStepKeepsCurrent(location, resp, now) ==
  IF resp.kind \in { "reject", "badjson" } THEN Throw
  ELSE IF resp.kind = "notok" THEN Null
  ELSE
    LET data == resp.body
        current == IF IsSome(data.current) THEN Val(data.current) ELSE NoCurrent
        hourly == IF IsSome(data.hourly) THEN Val(data.hourly) ELSE NoHourly
        useHourly ==
          ~IsSome(current.temperature_2m) \/ ~IsSome(current.relative_humidity_2m)
        targetTime == IF IsSome(current.time) THEN Val(current.time) ELSE topOfHour(now)
        timeIndex == IF IsSome(hourly.time) THEN findIndex(Val(hourly.time), targetTime) ELSE -1
        index == IF timeIndex >= 0 THEN timeIndex ELSE 0
        temperatureC ==
          IF ~IsSome(current.temperature_2m) THEN At(hourly.temperature_2m, index)
          ELSE current.temperature_2m
        humidity ==
          IF ~IsSome(current.relative_humidity_2m) THEN At(hourly.relative_humidity_2m, index)
          ELSE current.relative_humidity_2m
        weatherCode ==
          IF useHourly THEN At(hourly.weather_code, index) ELSE current.weather_code
        observedAt == IF useHourly THEN At(hourly.time, index) ELSE current.time
    IN  IF ~IsSome(temperatureC) \/ ~IsSome(humidity) THEN Null
        ELSE Value([ condition |-> mapWeatherCode(weatherCode),
                     temperatureC |-> Val(temperatureC),
                     humidity |-> Val(humidity),
                     source |-> "open-meteo",
                     observedAt |-> observedAt,
                     geocode |-> Some([ name |-> location.name,
                                        country |-> location.country,
                                        admin1 |-> location.admin1,
                                        latitude |-> location.latitude,
                                        longitude |-> location.longitude,
                                        timezone |-> location.timezone ]),
                     cacheStatus |-> None,
                     cacheKey |-> None,
                     normalizedCity |-> None ])

\* lines 174-246: forecast request, choice of the reading, snapshot
forecastStep(location, resp, now) ==
  IF resp.kind \in { "reject", "badjson" } THEN Throw
  ELSE IF resp.kind = "notok" THEN Null
  ELSE
    LET data == resp.body
        current == IF IsSome(data.current) THEN Val(data.current) ELSE NoCurrent
        hourly == IF IsSome(data.hourly) THEN Val(data.hourly) ELSE NoHourly
        useHourly ==
          ~IsSome(current.temperature_2m) \/ ~IsSome(current.relative_humidity_2m)
        targetTime == IF IsSome(current.time) THEN Val(current.time) ELSE topOfHour(now)
        timeIndex == IF IsSome(hourly.time) THEN findIndex(Val(hourly.time), targetTime) ELSE -1
        index == IF timeIndex >= 0 THEN timeIndex ELSE 0
        temperatureC ==
          IF useHourly THEN At(hourly.temperature_2m, index) ELSE current.temperature_2m
        humidity ==
          IF useHourly THEN At(hourly.relative_humidity_2m, index)
          ELSE current.relative_humidity_2m
        weatherCode ==
          IF useHourly THEN At(hourly.weather_code, index) ELSE current.weather_code
        observedAt == IF useHourly THEN At(hourly.time, index) ELSE current.time
    IN  IF ~IsSome(temperatureC) \/ ~IsSome(humidity) THEN Null
        ELSE Value([ condition |-> mapWeatherCode(weatherCode),
                     temperatureC |-> Val(temperatureC),
                     humidity |-> Val(humidity),
                     source |-> "open-meteo",
                     observedAt |-> observedAt,
                     geocode |-> Some([ name |-> location.name,
                                        country |-> location.country,
                                        admin1 |-> location.admin1,
                                        latitude |-> location.latitude,
                                        longitude |-> location.longitude,
                                        timezone |-> location.timezone ]),
                     cacheStatus |-> None,
                     cacheKey |-> None,
                     normalizedCity |-> None ])

\* ------------------------------------------------------------------------
\* Configuration (WeatherEnv) as getWeatherByCity reads it, lines 266-277
\* ------------------------------------------------------------------------
AUTO == << "a", "u", "t", "o" >>

\* Number(s) of a string of decimal digits
RECURSIVE StrToNum(_)
StrToNum(s) ==
  IF s = << >> THEN 0
  ELSE 10 * StrToNum(SubSeq(s, 1, Len(s) - 1))
         + (CHOOSE d \in 0..9 : Digits[d + 1] = s[Len(s)])

\* mutant: the raw city is normalized as given, without the placeholder
normalizedNoPlaceholder(city) == normalizeCity(city)

\* mutant: the emptiness test is made on the trimmed city
normalizedTrimFirst(city) ==
  normalizeCity(IF trim(city) = << >> THEN PLACEHOLDER_CITY ELSE city)

normalizedOf(city) == normalizeCity(IF city = << >> THEN PLACEHOLDER_CITY ELSE city)

ttlSecondsOf(env) ==
  IF IsSome(env.WEATHER_CACHE_TTL_SECONDS)
    THEN StrToNum(Val(env.WEATHER_CACHE_TTL_SECONDS))
    ELSE DEFAULT_TTL_SECONDS

\* mutant: the bucket is the millisecond reading itself
bucketNoFloor(env, now) == now

bucketOf(env, now) == now \div (ttlSecondsOf(env) * 1000)

\* mutant: the setting is compared as written, without lower-casing
providerSettingRaw(env) ==
  IF IsSome(env.WEATHER_PROVIDER) THEN Val(env.WEATHER_PROVIDER) ELSE AUTO

providerSettingOf(env) ==
  toLowerCase(IF IsSome(env.WEATHER_PROVIDER) THEN Val(env.WEATHER_PROVIDER) ELSE AUTO)

disableCacheOf(env) == env.WEATHER_DISABLE_CACHE = Some(<< "1" >>)

\* mutant: every setting but 'mock' permits the live lookup
tryOpenMeteoUnlessMock(env) == providerSettingOf(env) # SourceChars("mock")

tryOpenMeteoOf(env) ==
  providerSettingOf(env) = AUTO \/ providerSettingOf(env) = SourceChars("open-meteo")

forceMockOf(env) == providerSettingOf(env) = SourceChars("mock")

providerKeyOf(env) == IF forceMockOf(env) THEN "mock" ELSE "open-meteo"

\* mutant: every bucket shares one key
cacheKeyNoBucket(r) == buildWeatherCacheKey(providerKeyOf(r.env), normalizedOf(r.city), 0)

\* the cacheKey of a call record
cacheKeyOf(r) == buildWeatherCacheKey(providerKeyOf(r.env), normalizedOf(r.city), r.bucket)

\* ------------------------------------------------------------------------
\* The stored payload: JSON.stringify(snapshot) keeps the properties that
\* are not undefined; reading it back gives undefined for the others.
\* ------------------------------------------------------------------------
RequiredFields == { "condition", "temperatureC", "humidity", "source" }
OptionalFields == { "observedAt", "geocode", "cacheStatus", "cacheKey", "normalizedCity" }

stringify(snapshot) ==
  [ f \in RequiredFields \cup { g \in OptionalFields : IsSome(snapshot[g]) } |->
      IF f \in OptionalFields THEN Val(snapshot[f]) ELSE snapshot[f] ]

parseJson(payload) ==
  [ f \in RequiredFields \cup OptionalFields |->
      IF f \in OptionalFields
        THEN (IF f \in DOMAIN payload THEN Some(payload[f]) ELSE None)
        ELSE payload[f] ]

\* ------------------------------------------------------------------------
\* getWeatherByCity, lines 265-316, as the steps between its awaits.
\* A call record holds the locals of one invocation.  History kept beside
\* them: ops lists the operations the call has issued, in order; found is
\* what cache.match resolved to (None while there was no lookup,
\* Some(None) for no entry, Some(Some(entry)) for an entry); doneBefore is
\* the set of calls that had ended when this one began, at the Date.now()
\* it read; rejected names the cache operation that rejected, if one did.
\* ------------------------------------------------------------------------
DefaultEnv ==
  [ WEATHER_PROVIDER |-> None, WEATHER_CACHE_TTL_SECONDS |-> None,
    WEATHER_DISABLE_CACHE |-> None ]

IdleCall ==
  [ pc |-> "idle", city |-> << >>, env |-> DefaultEnv, at |-> 0, bucket |-> 0,
    location |-> None, snapshot |-> None, result |-> None, raised |-> FALSE,
    ops |-> << >>, found |-> None, rejected |-> None, doneBefore |-> {} ]

\* lines 297-304 and 315: mock fallback, clamp, status tag; then either the
\* await of cache.put or, when bypassing, the return
complete(r, live, now) ==
  LET normalized == normalizedOf(r.city)
      disableCache == disableCacheOf(r.env)
      base == IF IsSome(live) THEN Val(live) ELSE getMockWeather(r.city, normalized, now)
      clamped == [ base EXCEPT !.temperatureC = clamp(@, TEMP_MIN, TEMP_MAX),
                               !.humidity = clamp(@, HUMIDITY_MIN, HUMIDITY_MAX) ]
      tagged == [ clamped EXCEPT
                    !.cacheStatus = Some(IF disableCache THEN "bypass" ELSE "miss") ]
      did == r.ops \o (IF IsSome(live) THEN << >> ELSE << "mock" >>) \o << "clamp" >>
  IN  IF ~disableCache
        THEN [ r EXCEPT !.pc = "put", !.snapshot = Some(tagged),
                        !.ops = did \o << "put" >> ]
        ELSE [ r EXCEPT !.pc = "done", !.snapshot = Some(tagged), !.ops = did,
                        !.result = Some([ tagged EXCEPT
                                            !.cacheKey = Some(cacheKeyOf(r)),
                                            !.normalizedCity = Some(normalized) ]) ]

\* lines 288-295: the live attempt, when the provider setting permits it
afterLookup(r, now) ==
  IF tryOpenMeteoOf(r.env) /\ ~forceMockOf(r.env)
    THEN [ r EXCEPT !.pc = "geo", !.ops = Append(@, "geocode") ]
    ELSE complete(r, None, now)

\* mutant: the lookup is made also when the cache is disabled
beginAlwaysLookup(city, env, now, finished) ==
  [ IdleCall EXCEPT !.city = city, !.env = env, !.at = now,
                    !.bucket = bucketOf(env, now), !.doneBefore = finished,
                    !.pc = "match", !.ops = << "match" >> ]

\* lines 266-281: the synchronous prefix of a call
begin(city, env, now, finished) ==
  LET r == [ IdleCall EXCEPT !.city = city, !.env = env, !.at = now,
                             !.bucket = bucketOf(env, now),
                             !.doneBefore = finished ]
  IN  IF ~disableCacheOf(env)
        THEN [ r EXCEPT !.pc = "match", !.ops = << "match" >> ]
        ELSE afterLookup(r, now)

\* mutant: the hit runs the mock generator beside what it read
onHitRegenerates(r, payload) ==
  [ r EXCEPT !.pc = "done",
             !.ops = Append(@, "mock"),
             !.result = Some([ parseJson(payload) EXCEPT
                                 !.cacheKey = Some(cacheKeyOf(r)),
                                 !.normalizedCity = Some(normalizedOf(r.city)),
                                 !.cacheStatus = Some("hit") ]) ]

\* mutant: the hit stores what it read again
onHitRestores(r, payload) ==
  [ r EXCEPT !.pc = "put", !.snapshot = Some(parseJson(payload)),
             !.ops = Append(@, "put") ]

\* mutant: the hit returns the stored cacheStatus
onHitStoredStatus(r, payload) ==
  [ r EXCEPT !.pc = "done",
             !.result = Some([ parseJson(payload) EXCEPT
                                 !.cacheKey = Some(cacheKeyOf(r)),
                                 !.normalizedCity = Some(normalizedOf(r.city)) ]) ]

\* lines 282-285: the hit
onHit(r, payload) ==
  [ r EXCEPT !.pc = "done",
             !.result = Some([ parseJson(payload) EXCEPT
                                 !.cacheKey = Some(cacheKeyOf(r)),
                                 !.normalizedCity = Some(normalizedOf(r.city)),
                                 !.cacheStatus = Some("hit") ]) ]

\* mutant: a geocode step that gave no location is tried once more
onGeocodeRetries(r, resp, now) ==
  LET g == geocodeStep(r.city, resp)
  IN  IF g.kind = "value"
        THEN [ r EXCEPT !.pc = "forecast", !.location = g.value,
                        !.ops = Append(@, "forecast") ]
        ELSE IF r.ops[Len(r.ops)] = "geocode" /\ Len(r.ops) < 3
          THEN [ r EXCEPT !.pc = "geo", !.ops = Append(@, "geocode") ]
          ELSE complete(r, None, now)

\* line 291 up to the forecast request
onGeocode(r, resp, now) ==
  LET g == geocodeStep(r.city, resp)
  IN  IF g.kind = "value"
        THEN [ r EXCEPT !.pc = "forecast", !.location = g.value,
                        !.ops = Append(@, "forecast") ]
        ELSE complete(r, None, now)

\* the rest of line 291, and the catch of lines 292-294
onForecast(r, resp, now) ==
  LET f == forecastStep(Val(r.location), resp, now)
  IN  complete(r, IF f.kind = "value" THEN f.value ELSE None, now)

\* mutant: the miss path returns the snapshot as stored
onStoredBare(r) == [ r EXCEPT !.pc = "done", !.result = r.snapshot ]

\* line 315, after cache.put resolved
onStored(r) ==
  [ r EXCEPT !.pc = "done",
             !.result = Some([ Val(r.snapshot) EXCEPT
                                 !.cacheKey = Some(cacheKeyOf(r)),
                                 !.normalizedCity = Some(normalizedOf(r.city)) ]) ]

\* an awaited cache operation rejected: the exception leaves the call
onRaise(r) == [ r EXCEPT !.pc = "done", !.raised = TRUE ]

\* ------------------------------------------------------------------------
\* Bounds and input sets
\* ------------------------------------------------------------------------
\* number of getWeatherByCity invocations, which may overlap
MaxCalls == 2

Calls == 1..MaxCalls

\* wall-clock readings (ms, from a bucket-aligned origin): the last
\* millisecond of a default bucket and the first two of the next
Times == { 0, 599999, 600000 }

RawCities == { << >>, << " ", "S", "h", " " >>, << "s", "h" >> }

ProviderSettings ==
  { None, Some(SourceChars("open-meteo")), Some(SourceChars("mock")),
    Some(<< "M", "o", "c", "K" >>), Some(<< "U" >>) }

DisableSettings == { None, Some(<< "1" >>) }

Envs ==
  { [ WEATHER_PROVIDER |-> p, WEATHER_CACHE_TTL_SECONDS |-> None,
      WEATHER_DISABLE_CACHE |-> d ] : p \in ProviderSettings, d \in DisableSettings }

Candidate(name, code, admin1, coords) ==
  [ name |-> Some(name), country |-> None, country_code |-> Some(code),
    admin1 |-> admin1, latitude |-> coords, longitude |-> coords,
    timezone |-> None ]

Reject == [ kind |-> "reject", body |-> None ]
NotOk == [ kind |-> "notok", body |-> None ]
BadJson == [ kind |-> "badjson", body |-> None ]
Ok(body) == [ kind |-> "ok", body |-> body ]

GeoResponses ==
  { Reject, NotOk, BadJson,
    Ok([ results |-> None ]),
    Ok([ results |-> Some(<< >>) ]),
    Ok([ results |-> Some(<< Candidate(<< "S", "h" >>, "US", None, Some(1)),
                             Candidate(<< "S", "h" >>, "CN", None, Some(31)) >>) ]),
    Ok([ results |-> Some(<< Candidate(<< "S", "h" >>, "CN", None, None),
                             Candidate(<< "S", "h" >>, "US", None, Some(1)) >>) ]) }

Minute(m) == [ fmt |-> "min", v |-> m ]

ForecastResponses ==
  { Reject, NotOk, BadJson,
    Ok([ current |-> None, hourly |-> None ]),
    Ok([ current |-> Some([ temperature_2m |-> Some(45),
                            relative_humidity_2m |-> Some(10),
                            weather_code |-> Some(0),
                            time |-> Some(Minute(15)) ]),
         hourly |-> None ]),
    Ok([ current |-> Some([ temperature_2m |-> Some(20),
                            relative_humidity_2m |-> None,
                            weather_code |-> Some(3),
                            time |-> Some(Minute(60)) ]),
         hourly |-> Some([ time |-> Some(<< Minute(0), Minute(60) >>),
                           temperature_2m |-> Some(<< 0 - 5, 21 >>),
                           relative_humidity_2m |-> Some(<< 50, 99 >>),
                           weather_code |-> Some(<< 61, 71 >>) ]) ]) }

\* ------------------------------------------------------------------------
\* State
\*
\* The cache is keyed by cacheKey: the request URL of line 278 is an
\* injective encoding of it.  The store keeps what it is given (eviction is
\* the backing store's business and is not modelled); cache.match and
\* cache.put may reject.  Calls interleave at their awaits.
\* ------------------------------------------------------------------------
VARIABLES
  now,     \* Date.now()
  cache,   \* caches.default: cache key -> [payload, writer], the stored
           \* payload and (history) the call that stored it
  calls,   \* the invocations of getWeatherByCity
  probe    \* [in, out]: arguments and result of a pure function under test

vars == << now, cache, calls, probe >>

NoProbe == [ in |-> None, out |-> None ]

Init ==
  /\ now = 0
  /\ cache = << >>
  /\ calls = [ c \in Calls |-> IdleCall ]
  /\ probe = NoProbe

Finished == { c \in Calls : calls[c].pc = "done" }

\* getWeatherByCity(city, env) is invoked and runs to its first await
Call(c, city, env) ==
  /\ calls[c].pc = "idle"
  /\ IF c = 1 THEN TRUE ELSE calls[c - 1].pc # "idle"
  /\ calls' = [ calls EXCEPT ![c] = begin(city, env, now, Finished) ]
  /\ UNCHANGED << now, cache, probe >>

\* cache.match resolves: a hit returns, a miss goes on
Match(c) ==
  /\ calls[c].pc = "match"
  /\ calls' = [ calls EXCEPT ![c] =
                  IF cacheKeyOf(calls[c]) \in DOMAIN cache
                    THEN onHit([ calls[c] EXCEPT
                                   !.found = Some(Some(cache[cacheKeyOf(calls[c])])) ],
                               cache[cacheKeyOf(calls[c])].payload)
                    ELSE afterLookup([ calls[c] EXCEPT !.found = Some(None) ], now) ]
  /\ UNCHANGED << now, cache, probe >>

\* cache.match rejects, or cached.json() rejects on the entry found
MatchRejects(c) ==
  /\ calls[c].pc = "match"
  /\ calls' = [ calls EXCEPT ![c] =
                  onRaise([ calls[c] EXCEPT !.rejected = Some("match") ]) ]
  /\ UNCHANGED << now, cache, probe >>

\* the geocode request is answered (or fails)
Geocode(c, resp) ==
  /\ calls[c].pc = "geo"
  /\ calls' = [ calls EXCEPT ![c] = onGeocode(calls[c], resp, now) ]
  /\ UNCHANGED << now, cache, probe >>

\* the forecast request is answered (or fails)
Forecast(c, resp) ==
  /\ calls[c].pc = "forecast"
  /\ calls' = [ calls EXCEPT ![c] = onForecast(calls[c], resp, now) ]
  /\ UNCHANGED << now, cache, probe >>

\* cache.put resolves: the payload is in the cache and the call returns
Put(c) ==
  /\ calls[c].pc = "put"
  /\ cache' = [ k \in DOMAIN cache \cup { cacheKeyOf(calls[c]) } |->
                  IF k = cacheKeyOf(calls[c])
                    THEN [ payload |-> stringify(Val(calls[c].snapshot)),
                           writer |-> c ]
                    ELSE cache[k] ]
  /\ calls' = [ calls EXCEPT ![c] = onStored(calls[c]) ]
  /\ UNCHANGED << now, probe >>

\* cache.put rejects
PutRejects(c) ==
  /\ calls[c].pc = "put"
  /\ calls' = [ calls EXCEPT ![c] =
                  onRaise([ calls[c] EXCEPT !.rejected = Some("put") ]) ]
  /\ UNCHANGED << now, cache, probe >>

\* time passes
Tick ==
  /\ \E t \in Times : t > now /\ now' = t
  /\ UNCHANGED << cache, calls, probe >>

Next ==
  \/ \E c \in Calls, city \in RawCities, env \in Envs : Call(c, city, env)
  \/ \E c \in Calls : Match(c)
  \/ \E c \in Calls : MatchRejects(c)
  \/ \E c \in Calls, resp \in GeoResponses : Geocode(c, resp)
  \/ \E c \in Calls, resp \in ForecastResponses : Forecast(c, resp)
  \/ \E c \in Calls : Put(c)
  \/ \E c \in Calls : PutRejects(c)
  \/ Tick

Spec == Init /\ [][Next]_vars

\* ------------------------------------------------------------------------
\* buildWeatherCacheKey on its own: two argument triples and their keys
\* ------------------------------------------------------------------------
MaxKeyCityLen == 2
MaxKeyBucket == 12

KeyAlphabet == { "a", ":", "1" }

KeyCities == UNION { [ 1..n -> KeyAlphabet ] : n \in 0..MaxKeyCityLen }

KeyTriples ==
  { [ provider |-> p, normalizedCity |-> city, bucket |-> b ] :
      p \in { "mock", "open-meteo" }, city \in KeyCities, b \in 0..MaxKeyBucket }

KeyOf(t) == buildWeatherCacheKey(t.provider, t.normalizedCity, t.bucket)

InitKey ==
  /\ now = 0
  /\ cache = << >>
  /\ calls = [ c \in Calls |-> IdleCall ]
  /\ \E a, b \in KeyTriples : probe = [ in |-> Some(<< a, b >>), out |-> None ]

BuildKeys ==
  /\ IsSome(probe.in)
  /\ probe.out = None
  /\ probe' = [ probe EXCEPT
                  !.out = Some(<< KeyOf(Val(probe.in)[1]), KeyOf(Val(probe.in)[2]) >>) ]
  /\ UNCHANGED << now, cache, calls >>

NextKey == BuildKeys

SpecKey == InitKey /\ [][NextKey]_vars

\* ------------------------------------------------------------------------
\* The cache key across builds: an entry stored by a build with one
\* WEATHER_VERSION, looked up by a build with another.  The tags are the two
\* this repository has shipped: 'v1' (functions/lib/weather.ts) and 'v3'.
\* ------------------------------------------------------------------------
MaxVersionCityLen == 1

OLD_WEATHER_VERSION == << "v", "1" >>

VersionTags == { OLD_WEATHER_VERSION, WEATHER_VERSION }

VersionBuckets == { 0, 1, 11 }

VersionCities == UNION { [ 1..n -> KeyAlphabet ] : n \in 0..MaxVersionCityLen }

VersionedArgs ==
  { [ version |-> v, provider |-> p, normalizedCity |-> city, bucket |-> b ] :
      v \in VersionTags, p \in { "mock", "open-meteo" },
      city \in VersionCities, b \in VersionBuckets }

VersionedKeyOf(t) == keyUnderVersion(t.version, t.provider, t.normalizedCity, t.bucket)

InitVersion ==
  /\ now = 0
  /\ cache = << >>
  /\ calls = [ c \in Calls |-> IdleCall ]
  /\ \E a, b \in VersionedArgs : probe = [ in |-> Some(<< a, b >>), out |-> None ]

\* the first build stores under its key, the second looks its own key up
LookupAcrossBuilds ==
  /\ IsSome(probe.in)
  /\ probe.out = None
  /\ LET stored == VersionedKeyOf(Val(probe.in)[1])
         wanted == VersionedKeyOf(Val(probe.in)[2])
     IN  probe' = [ probe EXCEPT
                      !.out = Some([ stored |-> stored, wanted |-> wanted,
                                     hit |-> wanted \in { stored } ]) ]
  /\ UNCHANGED << now, cache, calls >>

NextVersion == LookupAcrossBuilds

SpecVersion == InitVersion /\ [][NextVersion]_vars

\* ------------------------------------------------------------------------
\* Line 266 on its own: the normalized city of a raw city, and the
\* normalized city of that result given back as a raw city
\* ------------------------------------------------------------------------
MaxRawCityLen == 3

RawCityAlphabet == { " ", "S", "h", "u672A" }

RawCityStrings == UNION { [ 1..n -> RawCityAlphabet ] : n \in 0..MaxRawCityLen }

InitNormalize ==
  /\ now = 0
  /\ cache = << >>
  /\ calls = [ c \in Calls |-> IdleCall ]
  /\ \E x \in RawCityStrings : probe = [ in |-> Some(x), out |-> None ]

NormalizeTwice ==
  /\ IsSome(probe.in)
  /\ probe.out = None
  /\ probe' = [ probe EXCEPT
                  !.out = Some([ once |-> normalizedOf(Val(probe.in)),
                                 twice |-> normalizedOf(normalizedOf(Val(probe.in))) ]) ]
  /\ UNCHANGED << now, cache, calls >>

NextNormalize == NormalizeTwice

SpecNormalize == InitNormalize /\ [][NextNormalize]_vars

\* ------------------------------------------------------------------------
\* hashString and getMockWeather on their own: a string, its hash and the
\* mock snapshot made of it
\* ------------------------------------------------------------------------
MaxHashLen == 3

HashAlphabet == { " ", "S", "h", "s", "u672A" }

HashStrings == UNION { [ 1..n -> HashAlphabet ] : n \in 0..MaxHashLen }

InitHash ==
  /\ now = 0
  /\ cache = << >>
  /\ calls = [ c \in Calls |-> IdleCall ]
  /\ \E x \in HashStrings : probe = [ in |-> Some(x), out |-> None ]

HashAndMock ==
  /\ IsSome(probe.in)
  /\ probe.out = None
  /\ probe' = [ probe EXCEPT
                  !.out = Some([ hash |-> hashString(Val(probe.in)),
                                 mock |-> getMockWeather(Val(probe.in), Val(probe.in), now) ]) ]
  /\ UNCHANGED << now, cache, calls >>

NextHash == HashAndMock

SpecHash == InitHash /\ [][NextHash]_vars

\* ------------------------------------------------------------------------
\* Candidate choice on its own: a raw city, a candidate list in provider
\* order, and the candidate that lines 149-165 choose
\* ------------------------------------------------------------------------
MaxCandidates == 2

SelectNames == { << "S", "u" >>, << "S", "h" >> }
SelectCodes == { "CN", "US" }
SelectAdmins == { None, Some(<< "A" >>), Some(<< "h" >>) }
SelectCoords == { None, Some(1) }

SelectCandidates ==
  { Candidate(n, code, a, k) :
      n \in SelectNames, code \in SelectCodes, a \in SelectAdmins, k \in SelectCoords }

CandidateLists == UNION { [ 1..n -> SelectCandidates ] : n \in 0..MaxCandidates }

\* 'Su'; '苏州， a' (mapped to Su, hint a); 'sh,A'; 'Su,h'
SelectCities ==
  { << "S", "u" >>,
    << "u82CF", "u5DDE", "uFF0C", " ", "a" >>,
    << "s", "h", ",", "A" >>,
    << "S", "u", ",", "h" >> }

InitSelect ==
  /\ now = 0
  /\ cache = << >>
  /\ calls = [ c \in Calls |-> IdleCall ]
  /\ \E city \in SelectCities, results \in CandidateLists :
       probe = [ in |-> Some([ city |-> city, results |-> results ]), out |-> None ]

Select ==
  /\ IsSome(probe.in)
  /\ probe.out = None
  /\ LET parsed == parseCityAndAdmin(Val(probe.in).city)
         mappedName == mapCityName(parsed.name)
     IN  probe' = [ probe EXCEPT
                      !.out = Some([ targetName |-> mappedName,
                                     targetAdmin |-> parsed.admin1,
                                     location |-> selectGeocodeResult(
                                                    Val(probe.in).results,
                                                    mappedName, parsed.admin1) ]) ]
  /\ UNCHANGED << now, cache, calls >>

NextSelect == Select

SpecSelect == InitSelect /\ [][NextSelect]_vars

\* ------------------------------------------------------------------------
\* One call of getWeatherByCity with the live lookup permitted, over every
\* short candidate list; probe.in keeps the geocode response the call got.
\* ------------------------------------------------------------------------
GeoCoords ==
  { << None, None >>, << Some(1), None >>, << None, Some(1) >>, << Some(1), Some(1) >> }

GeoCandidates ==
  { [ Candidate(<< "S", "u" >>, code, a, None) EXCEPT
        !.latitude = k[1], !.longitude = k[2] ] :
      code \in SelectCodes, a \in { None, Some(<< "A" >>) }, k \in GeoCoords }

GeoLists == UNION { [ 1..n -> GeoCandidates ] : n \in 0..MaxCandidates }

GeoAnswers ==
  { Reject, NotOk, BadJson, Ok([ results |-> None ]) }
    \cup { Ok([ results |-> Some(l) ]) : l \in GeoLists }

\* 'Su' and '苏州， a'
GeoCities == { << "S", "u" >>, << "u82CF", "u5DDE", "uFF0C", " ", "a" >> }

GeoEnvs == { DefaultEnv, [ DefaultEnv EXCEPT !.WEATHER_DISABLE_CACHE = Some(<< "1" >>) ] }

\* the geocode request of the call is answered (or fails)
GeocodeAnswered(resp) ==
  /\ calls[1].pc = "geo"
  /\ calls' = [ calls EXCEPT ![1] = onGeocode(calls[1], resp, now) ]
  /\ probe' = [ in |-> Some(resp), out |-> None ]
  /\ UNCHANGED << now, cache >>

NextGeo ==
  \/ \E city \in GeoCities, env \in GeoEnvs : Call(1, city, env)
  \/ Match(1)
  \/ MatchRejects(1)
  \/ \E resp \in GeoAnswers : GeocodeAnswered(resp)
  \/ \E resp \in ForecastResponses : Forecast(1, resp)
  \/ Put(1)
  \/ PutRejects(1)

SpecGeo == Init /\ [][NextGeo]_vars

\* ------------------------------------------------------------------------
\* The forecast step on its own: a forecast body, the clock, and what
\* lines 191-246 make of it
\* ------------------------------------------------------------------------
ReadingTemps == { None, Some(45) }
ReadingHumidities == { None, Some(10) }
ReadingTimes == { None, Some(Minute(60)) }

CurrentReadings ==
  { None } \cup
  { Some([ temperature_2m |-> t, relative_humidity_2m |-> h,
           weather_code |-> Some(0), time |-> at ]) :
      t \in ReadingTemps, h \in ReadingHumidities, at \in ReadingTimes }

HourlyTimes ==
  { None, Some(<< Minute(0) >>), Some(<< Minute(0), Minute(60) >>),
    Some(<< Minute(60), Minute(60) >>) }
HourlyTemps == { None, Some(<< 7 >>), Some(<< 0 - 5, 21 >>) }
HourlyHumidities == { None, Some(<< 40 >>), Some(<< 50, 99 >>) }

HourlySeries ==
  { None } \cup
  { Some([ time |-> at, temperature_2m |-> t, relative_humidity_2m |-> h,
           weather_code |-> Some(<< 61, 71 >>) ]) :
      at \in HourlyTimes, t \in HourlyTemps, h \in HourlyHumidities }

ForecastBodies == { [ current |-> c, hourly |-> h ] : c \in CurrentReadings, h \in HourlySeries }

\* the clock in the hour of minute 0 and in the hour of minute 60
ForecastClocks == { 0, MS_PER_HOUR }

ForecastLocation == Candidate(<< "S", "h" >>, "CN", None, Some(31))

InitForecast ==
  /\ now \in ForecastClocks
  /\ cache = << >>
  /\ calls = [ c \in Calls |-> IdleCall ]
  /\ \E body \in ForecastBodies : probe = [ in |-> Some(body), out |-> None ]

ReadForecast ==
  /\ IsSome(probe.in)
  /\ probe.out = None
  /\ probe' = [ probe EXCEPT
                  !.out = Some(forecastStep(ForecastLocation, Ok(Val(probe.in)), now)) ]
  /\ UNCHANGED << now, cache, calls >>

NextForecast == ReadForecast

SpecForecast == InitForecast /\ [][NextForecast]_vars

\* ------------------------------------------------------------------------
\* mapWeatherCode on its own, and through a forecast whose current reading
\* carries the code
\* ------------------------------------------------------------------------
MaxWeatherCode == 100

WeatherCodes == { None } \cup { Some(code) : code \in (0 - 2)..MaxWeatherCode }

CodedForecast(code) ==
  Ok([ current |-> Some([ temperature_2m |-> Some(20),
                          relative_humidity_2m |-> Some(50),
                          weather_code |-> code,
                          time |-> None ]),
       hourly |-> None ])

InitCode ==
  /\ now = 0
  /\ cache = << >>
  /\ calls = [ c \in Calls |-> IdleCall ]
  /\ \E code \in WeatherCodes : probe = [ in |-> Some(code), out |-> None ]

MapCode ==
  /\ IsSome(probe.in)
  /\ probe.out = None
  /\ probe' = [ probe EXCEPT
                  !.out = Some([ label |-> mapWeatherCode(Val(probe.in)),
                                 live |-> forecastStep(ForecastLocation,
                                                       CodedForecast(Val(probe.in)),
                                                       now) ]) ]
  /\ UNCHANGED << now, cache, calls >>

NextCode == MapCode

SpecCode == InitCode /\ [][NextCode]_vars

\* ------------------------------------------------------------------------
\* The live lookup of one call on the clock.  fetchWithTimeout arms a timer
\* of timeoutMs for each request it sends and clears it when the request
\* settles; probe.in keeps when the lookup began and when the timer of the
\* request in flight was armed.  The call bypasses the cache, so that the
\* lookup begins with the call.
\* ------------------------------------------------------------------------
MaxClock == 12000

\* half the default timeout
ClockStep == DEFAULT_TIMEOUT_MS \div 2

\* line 147; the model's environments leave WEATHER_TIMEOUT_MS unset
timeoutMsOf(env) == DEFAULT_TIMEOUT_MS

BypassEnv == [ DefaultEnv EXCEPT !.WEATHER_DISABLE_CACHE = Some(<< "1" >>) ]

InFlight == calls[1].pc \in { "geo", "forecast" }

LookupBegins(city) ==
  /\ calls[1].pc = "idle"
  /\ calls' = [ calls EXCEPT ![1] = begin(city, BypassEnv, now, {}) ]
  /\ probe' = [ in |-> Some([ began |-> now, armed |-> now ]), out |-> None ]
  /\ UNCHANGED << now, cache >>

\* time passes; a timer that is armed fires no later than it is set for
Elapse ==
  /\ now + ClockStep <= MaxClock
  /\ InFlight => now + ClockStep <= Val(probe.in).armed + timeoutMsOf(calls[1].env)
  /\ now' = now + ClockStep
  /\ UNCHANGED << cache, calls, probe >>

\* the geocode request settles before its timer fires; the forecast
\* request, if one follows, arms a timer of its own
GeocodeSettles(resp) ==
  /\ calls[1].pc = "geo"
  /\ now < Val(probe.in).armed + timeoutMsOf(calls[1].env)
  /\ calls' = [ calls EXCEPT ![1] = onGeocode(calls[1], resp, now) ]
  /\ probe' = [ probe EXCEPT !.in = Some([ Val(probe.in) EXCEPT !.armed = now ]) ]
  /\ UNCHANGED << now, cache >>

ForecastSettles(resp) ==
  /\ calls[1].pc = "forecast"
  /\ now < Val(probe.in).armed + timeoutMsOf(calls[1].env)
  /\ calls' = [ calls EXCEPT ![1] = onForecast(calls[1], resp, now) ]
  /\ UNCHANGED << now, cache, probe >>

\* the timer fires: controller.abort() makes the fetch in flight reject
TimerFires ==
  /\ InFlight
  /\ now = Val(probe.in).armed + timeoutMsOf(calls[1].env)
  /\ calls' = [ calls EXCEPT ![1] =
                  IF calls[1].pc = "geo" THEN onGeocode(calls[1], Reject, now)
                  ELSE onForecast(calls[1], Reject, now) ]
  /\ probe' = [ probe EXCEPT !.out = Some("aborted") ]
  /\ UNCHANGED << now, cache >>

NextTimeout ==
  \/ \E city \in RawCities : LookupBegins(city)
  \/ Elapse
  \/ \E resp \in GeoResponses : GeocodeSettles(resp)
  \/ \E resp \in ForecastResponses : ForecastSettles(resp)
  \/ TimerFires

SpecTimeout == Init /\ [][NextTimeout]_vars

\* ------------------------------------------------------------------------
\* functions/api/advice.ts: POST /api/advice.
\*
\* Requests are handled one after the other.  probe.in is the request being
\* handled (its number, the environment, the parsed body or None for a body
\* that is not JSON); probe.out is the handler: its position, its locals,
\* the operations it has begun and its response.  In this specification
\* cache is caches.default as advice.ts uses it: the advice entries, keyed
\* by the SHA-256 digest of the JSON text of the body, each the stored text
\* and (history) the body of the request that stored it, and the weather
\* entries, keyed by the lower-cased city.
\* ------------------------------------------------------------------------
MaxRequests == 3

\* !value for an optional string
Falsy(o) == ~IsSome(o) \/ Val(o) = << >>

AdviceResponse(status, type, text) == [ status |-> status, type |-> type, text |-> text ]

\* line 233
Forbidden == AdviceResponse(403, "text/plain", None)

\* line 259
BadRequest == AdviceResponse(400, "text/plain", None)

\* lines 203-225: the response is built at once, the stream runs later
streamText(text) == AdviceResponse(200, "text/event-stream", Some(text))

\* lines 57-62
adviceWeather(city) ==
  [ city |-> city, tempC |-> 18 + (Len(city) % 12), humidity |-> 45 + (Len(city) % 40) ]

\* lines 121-200, by the parts of the text that depend on the arguments;
\* None when the body lacks symptoms or wearable (a TypeError)
buildAdvice(input, weather) ==
  IF ~IsSome(input.symptoms) \/ ~IsSome(input.wearable) THEN None
  ELSE
    LET age == IF IsSome(input.age) THEN Val(input.age) ELSE 0 - 1
        risk == IF age >= 60 THEN "risk-high" ELSE IF age >= 40 THEN "risk-medium"
                ELSE "risk-low"
        tempBias == IF weather.tempC >= 28 THEN "hot"
                    ELSE IF weather.tempC <= 10 THEN "cold" ELSE "even"
        humidityHint == IF weather.humidity >= 70 THEN "humid"
                        ELSE IF weather.humidity <= 35 THEN "dry" ELSE "moderate"
    IN  Some(<< "rules", risk, tempBias, humidityHint >> \o OrEmpty(input.city))

\* lines 104-115: what callTcmBackend returns for a settled request
backendText(resp) ==
  IF resp.kind \in { "reject", "abort", "badjson", "notok" } THEN None
  ELSE IF resp.body.type = "json"
    THEN (IF IsSome(resp.body.text) THEN resp.body.text ELSE resp.body.advice)
    ELSE (IF Val(resp.body.text) = << >> THEN None ELSE resp.body.text)

\* JSON.stringify of a string
Quoted(str) == << "\"" >> \o str \o << "\"" >>

\* one member of a JSON object, left out when the field is undefined
Member(name, field, text) ==
  IF IsSome(field) THEN << name, ":" >> \o text \o << "," >> ELSE << >>

\* jsonStringify leaving the city out of the text
jsonStringifyNoCity(input) ==
  << "{" >>
  \o Member("age", input.age, NumToStr(OrZero(input.age)))
  \o Member("symptoms", input.symptoms, << "[", "]" >>)
  \o Member("wearable", input.wearable, << "{", "}" >>)
  \o Member("profile", input.profile,
             << "{", "city", ":" >> \o Quoted(OrEmpty(input.profile)) \o << "}" >>)
  \o Member("turnstileToken", input.turnstileToken, Quoted(OrEmpty(input.turnstileToken)))
  \o << "}" >>

\* line 236: JSON.stringify(input), the characters of the text; the members
\* are written in the order of the AdviceInput type
jsonStringify(input) ==
  << "{" >>
  \o Member("city", input.city, Quoted(OrEmpty(input.city)))
  \o Member("age", input.age, NumToStr(OrZero(input.age)))
  \o Member("symptoms", input.symptoms, << "[", "]" >>)
  \o Member("wearable", input.wearable, << "{", "}" >>)
  \o Member("profile", input.profile,
             << "{", "city", ":" >> \o Quoted(OrEmpty(input.profile)) \o << "}" >>)
  \o Member("turnstileToken", input.turnstileToken, Quoted(OrEmpty(input.turnstileToken)))
  \o << "}" >>

\* lines 24-27: the digest is taken to be free of collisions, so that it
\* stands for the text it was computed from
sha256Hex(text) == [ sha256 |-> text ]

\* lines 236-238
adviceCacheKey(input) == sha256Hex(jsonStringify(input))

IdleHandler ==
  [ pc |-> "idle", weather |-> None, adviceText |-> None, ops |-> << >>,
    response |-> None ]

Handler == Val(probe.out)
Input == Val(Val(probe.in).body)
AdviceEnvOf == Val(probe.in).env

Respond(h, response) == [ h EXCEPT !.pc = "done", !.response = Some(response) ]

\* lines 248-250: the advice text, then the await of cache.put
thenAdvice(h, input, weather, backendAdvice) ==
  LET adviceText == IF IsSome(backendAdvice) THEN backendAdvice
                    ELSE buildAdvice(input, weather)
  IN  IF ~IsSome(adviceText) THEN Respond(h, BadRequest)
      ELSE [ h EXCEPT !.pc = "advicePut", !.weather = Some(weather),
                      !.adviceText = adviceText, !.ops = Append(@, "advicePut") ]

\* lines 80-86: callTcmBackend up to its fetch
thenBackend(h, env, input, weather) ==
  IF Falsy(env.TCM_BACKEND_URL) THEN thenAdvice(h, input, weather, None)
  ELSE [ h EXCEPT !.pc = "backend", !.weather = Some(weather),
                  !.ops = Append(@, "backend") ]

\* lines 236-239: the digest, then the await of cache.match
thenAdviceMatch(h) == [ h EXCEPT !.pc = "adviceMatch", !.ops = Append(@, "adviceMatch") ]

\* lines 229-231 and 30-38: the body is parsed and verifyTurnstile runs up
\* to its fetch
receive(env, body) ==
  IF ~IsSome(body) THEN Respond(IdleHandler, BadRequest)
  ELSE IF Falsy(env.TURNSTILE_SECRET) THEN thenAdviceMatch(IdleHandler)
  ELSE IF Falsy(Val(body).turnstileToken) THEN Respond(IdleHandler, Forbidden)
  ELSE [ IdleHandler EXCEPT !.pc = "verify", !.ops = << "siteverify" >> ]

\* onVerified taking every answer that does not say success: false for a
\* confirmation
onVerifiedLenient(h, resp) ==
  IF resp.kind \in { "reject", "badjson" } THEN Respond(h, BadRequest)
  ELSE IF resp.kind = "notok" THEN Respond(h, Forbidden)
  ELSE IF resp.body.success # Some(FALSE) THEN thenAdviceMatch(h)
  ELSE Respond(h, Forbidden)

\* lines 44-46 and 232-234, for the settled siteverify request
onVerified(h, resp) ==
  IF resp.kind \in { "reject", "badjson" } THEN Respond(h, BadRequest)
  ELSE IF resp.kind = "notok" THEN Respond(h, Forbidden)
  ELSE IF resp.body.success = Some(TRUE) THEN thenAdviceMatch(h)
  ELSE Respond(h, Forbidden)

\* lines 241-246 and 50-52, for the settled cache.match of the advice key
onAdviceMatched(h, input, found) ==
  IF IsSome(found) THEN Respond(h, streamText(Val(found).text))
  ELSE IF ~IsSome(input.city) THEN Respond(h, BadRequest)
  ELSE [ h EXCEPT !.pc = "weatherMatch", !.ops = Append(@, "weatherMatch") ]

\* lines 53-71, for the settled cache.match of the weather key
onWeatherMatched(h, env, input, found) ==
  IF IsSome(found) THEN thenBackend(h, env, input, Val(found))
  ELSE [ h EXCEPT !.pc = "weatherPut", !.weather = Some(adviceWeather(Val(input.city))),
                  !.ops = Append(@, "weatherPut") ]

\* lines 104-115 and 247-250, for the settled backend request
onBackend(h, input, resp) == thenAdvice(h, input, Val(h.weather), backendText(resp))

AdviceCities == { << "S", "h" >>, << "s", "h" >> }
AdviceTokens == { None, Some(<< "t" >>) }
AdviceAges == { 30, 65 }

\* the body of the AdviceInput type (lines 1-14), city at the top level
ApiBody(city, age, token) ==
  [ city |-> Some(city), profile |-> None, age |-> Some(age), symptoms |-> Some(<< >>),
    wearable |-> Some("w"), turnstileToken |-> token ]

\* frontend/src/pages/ResultPage.vue lines 170-176: the body fetchAdvice
\* sends, the city inside profile
PageBody(city, age, token) ==
  [ city |-> None, profile |-> Some(city), age |-> Some(age), symptoms |-> Some(<< >>),
    wearable |-> Some("w"), turnstileToken |-> token ]

\* a body with a city and nothing else
BareBody(city) ==
  [ city |-> Some(city), profile |-> None, age |-> None, symptoms |-> None,
    wearable |-> None, turnstileToken |-> None ]

AdviceBodies ==
  { None } \cup
  { Some(ApiBody(c, a, t)) : c \in AdviceCities, a \in AdviceAges, t \in AdviceTokens } \cup
  { Some(PageBody(<< "S", "h" >>, 30, t)) : t \in AdviceTokens } \cup
  { Some(BareBody(<< "S", "h" >>)) }

AdviceEnvs ==
  [ TURNSTILE_SECRET : { None, Some(<< >>), Some(<< "k" >>) },
    TCM_BACKEND_URL : { None, Some(<< "u" >>) } ]

VerifyAnswers ==
  [ kind : { "reject", "notok", "badjson" }, body : { [ success |-> None ] } ] \cup
  [ kind : { "ok" }, body : [ success : { None, Some(TRUE), Some(FALSE) } ] ]

BackendBodies ==
  [ type : { "json" }, text : { None, Some(<< >>), Some(<< "b" >>) },
    advice : { None, Some(<< "a" >>) } ] \cup
  [ type : { "plain" }, text : { Some(<< >>), Some(<< "p" >>) }, advice : { None } ]

BackendAnswers ==
  [ kind : { "reject", "abort", "notok", "badjson" },
    body : { [ type |-> "plain", text |-> Some(<< >>), advice |-> None ] } ] \cup
  [ kind : { "ok" }, body : BackendBodies ]

InitAdvice ==
  /\ now = 0
  /\ calls = [ c \in Calls |-> IdleCall ]
  /\ cache = [ advice |-> << >>, weather |-> << >> ]
  /\ probe = [ in |-> None, out |-> Some(IdleHandler) ]

Requests == IF IsSome(probe.in) THEN Val(probe.in).n ELSE 0

\* lines 227-231: onRequestPost begins
AdviceRequest(env, body) ==
  /\ Handler.pc \in { "idle", "done" }
  /\ Requests < MaxRequests
  /\ probe' = [ in |-> Some([ n |-> Requests + 1, env |-> env, body |-> body ]),
                out |-> Some(receive(env, body)) ]
  /\ UNCHANGED << now, cache, calls >>

\* lines 39-46 and 232-234: the siteverify request settles
Verified(resp) ==
  /\ Handler.pc = "verify"
  /\ probe' = [ probe EXCEPT !.out = Some(onVerified(Handler, resp)) ]
  /\ UNCHANGED << now, cache, calls >>

\* lines 241-246: cache.match of the advice key settles
AdviceMatched ==
  /\ Handler.pc = "adviceMatch"
  /\ LET key == adviceCacheKey(Input)
         found == IF key \in DOMAIN cache.advice THEN Some(cache.advice[key]) ELSE None
     IN  probe' = [ probe EXCEPT !.out = Some(onAdviceMatched(Handler, Input, found)) ]
  /\ UNCHANGED << now, cache, calls >>

\* lines 52-55: cache.match of the weather key settles
WeatherMatched ==
  /\ Handler.pc = "weatherMatch"
  /\ LET key == toLowerCase(Val(Input.city))
         found == IF key \in DOMAIN cache.weather THEN Some(cache.weather[key]) ELSE None
     IN  probe' = [ probe EXCEPT
                     !.out = Some(onWeatherMatched(Handler, AdviceEnvOf, Input, found)) ]
  /\ UNCHANGED << now, cache, calls >>

\* lines 64-72: cache.put of the weather settles
WeatherPut ==
  /\ Handler.pc = "weatherPut"
  /\ cache' = [ cache EXCEPT
                 !.weather = (toLowerCase(Val(Input.city)) :> Val(Handler.weather)) @@ @ ]
  /\ probe' = [ probe EXCEPT
                 !.out = Some(thenBackend(Handler, AdviceEnvOf, Input, Val(Handler.weather))) ]
  /\ UNCHANGED << now, calls >>

\* lines 88-118: the backend request settles, or its 4-second timer aborts it
BackendSettles(resp) ==
  /\ Handler.pc = "backend"
  /\ probe' = [ probe EXCEPT !.out = Some(onBackend(Handler, Input, resp)) ]
  /\ UNCHANGED << now, cache, calls >>

\* lines 250-257: cache.put of the advice settles and the stream is returned
AdvicePut ==
  /\ Handler.pc = "advicePut"
  /\ cache' = [ cache EXCEPT
                 !.advice = (adviceCacheKey(Input) :>
                               [ text |-> Val(Handler.adviceText), body |-> Input ]) @@ @ ]
  /\ probe' = [ probe EXCEPT
                 !.out = Some(Respond(Handler, streamText(Val(Handler.adviceText)))) ]
  /\ UNCHANGED << now, calls >>

\* lines 258-260: a cache operation rejects and the catch answers
CacheRejects ==
  /\ Handler.pc \in { "adviceMatch", "weatherMatch", "weatherPut", "advicePut" }
  /\ probe' = [ probe EXCEPT !.out = Some(Respond(Handler, BadRequest)) ]
  /\ UNCHANGED << now, cache, calls >>

NextAdvice ==
  \/ \E env \in AdviceEnvs, body \in AdviceBodies : AdviceRequest(env, body)
  \/ \E resp \in VerifyAnswers : Verified(resp)
  \/ AdviceMatched
  \/ WeatherMatched
  \/ WeatherPut
  \/ \E resp \in BackendAnswers : BackendSettles(resp)
  \/ AdvicePut
  \/ CacheRejects

SpecAdvice == InitAdvice /\ [][NextAdvice]_vars

\* ------------------------------------------------------------------------
\* functions/api/health.ts: GET /api/health.
\*
\* Each health request is one invocation of getWeatherByCity for the probe
\* city; requests may overlap.  probe.out holds the response of each
\* request, None until it has answered.
\* ------------------------------------------------------------------------
DEFAULT_PROBE_CITY == << "u5317", "u4EAC" >>

ProbeCities == { None, Some(<< "s", "h" >>) }

HealthEnvs ==
  { [ WEATHER_PROVIDER |-> p, WEATHER_CACHE_TTL_SECONDS |-> None,
      WEATHER_DISABLE_CACHE |-> d ] :
      p \in { None, Some(SourceChars("mock")) }, d \in DisableSettings }

\* health.ts lines 30-32 with the catch left out of account: the source
\* stays undefined when the probe raises
healthResponseNoCatch(r, t) ==
  [ ok |-> TRUE,
    ts |-> toISOString(t),
    weatherProvider |-> IF IsSome(r.env.WEATHER_PROVIDER)
                          THEN Val(r.env.WEATHER_PROVIDER) ELSE SourceChars("auto"),
    weatherProbeCity |-> r.city,
    weatherProbeSource |-> IF r.raised THEN "undefined" ELSE Val(r.result).source ]

\* health.ts lines 28-44: the response, for the settled probe r
healthResponse(r, t) ==
  [ ok |-> TRUE,
    ts |-> toISOString(t),
    weatherProvider |-> IF IsSome(r.env.WEATHER_PROVIDER)
                          THEN Val(r.env.WEATHER_PROVIDER) ELSE SourceChars("auto"),
    weatherProbeCity |-> r.city,
    weatherProbeSource |-> IF r.raised THEN "unknown" ELSE Val(r.result).source ]

Responses == Val(probe.out)

InitHealth ==
  /\ now = 0
  /\ cache = << >>
  /\ calls = [ c \in Calls |-> IdleCall ]
  /\ probe = [ in |-> None, out |-> Some([ c \in Calls |-> None ]) ]

\* the probe of request c moves to r; when that settles it, the handler
\* answers in the same turn
HealthAdvance(c, r) ==
  /\ calls' = [ calls EXCEPT ![c] = r ]
  /\ probe' = [ probe EXCEPT !.out =
                  Some([ Responses EXCEPT ![c] =
                           IF r.pc = "done" THEN Some(healthResponse(r, now)) ELSE None ]) ]

\* health.ts lines 26-30: the handler begins and awaits the probe
HealthRequest(c, probeCity, env) ==
  /\ calls[c].pc = "idle"
  /\ IF c = 1 THEN TRUE ELSE calls[c - 1].pc # "idle"
  /\ HealthAdvance(c, begin(IF IsSome(probeCity) THEN Val(probeCity) ELSE DEFAULT_PROBE_CITY,
                            env, now, Finished))
  /\ UNCHANGED << now, cache >>

HealthMatch(c) ==
  /\ calls[c].pc = "match"
  /\ HealthAdvance(c,
       IF cacheKeyOf(calls[c]) \in DOMAIN cache
         THEN onHit([ calls[c] EXCEPT !.found = Some(Some(cache[cacheKeyOf(calls[c])])) ],
                    cache[cacheKeyOf(calls[c])].payload)
         ELSE afterLookup([ calls[c] EXCEPT !.found = Some(None) ], now))
  /\ UNCHANGED << now, cache >>

HealthMatchRejects(c) ==
  /\ calls[c].pc = "match"
  /\ HealthAdvance(c, onRaise([ calls[c] EXCEPT !.rejected = Some("match") ]))
  /\ UNCHANGED << now, cache >>

HealthGeocode(c, resp) ==
  /\ calls[c].pc = "geo"
  /\ HealthAdvance(c, onGeocode(calls[c], resp, now))
  /\ UNCHANGED << now, cache >>

HealthForecast(c, resp) ==
  /\ calls[c].pc = "forecast"
  /\ HealthAdvance(c, onForecast(calls[c], resp, now))
  /\ UNCHANGED << now, cache >>

HealthPut(c) ==
  /\ calls[c].pc = "put"
  /\ cache' = [ k \in DOMAIN cache \cup { cacheKeyOf(calls[c]) } |->
                  IF k = cacheKeyOf(calls[c])
                    THEN [ payload |-> stringify(Val(calls[c].snapshot)), writer |-> c ]
                    ELSE cache[k] ]
  /\ HealthAdvance(c, onStored(calls[c]))
  /\ UNCHANGED now

HealthPutRejects(c) ==
  /\ calls[c].pc = "put"
  /\ HealthAdvance(c, onRaise([ calls[c] EXCEPT !.rejected = Some("put") ]))
  /\ UNCHANGED << now, cache >>

NextHealth ==
  \/ \E c \in Calls, city \in ProbeCities, env \in HealthEnvs : HealthRequest(c, city, env)
  \/ \E c \in Calls : HealthMatch(c)
  \/ \E c \in Calls : HealthMatchRejects(c)
  \/ \E c \in Calls, resp \in GeoResponses : HealthGeocode(c, resp)
  \/ \E c \in Calls, resp \in ForecastResponses : HealthForecast(c, resp)
  \/ \E c \in Calls : HealthPut(c)
  \/ \E c \in Calls : HealthPutRejects(c)
  \/ Tick

SpecHealth == InitHealth /\ [][NextHealth]_vars

\* ------------------------------------------------------------------------
\* getWeatherByCity under a flaky provider: three calls for one city with
\* the default environment, which may overlap; each network request either
\* fails or is answered in full.
\* ------------------------------------------------------------------------
MaxOverlap == 3

Overlapping == 1..MaxOverlap

FlakyCity == << "s", "h" >>

FlakyGeo ==
  { resp \in GeoResponses :
      resp.kind = "reject" \/ geocodeStep(FlakyCity, resp).kind = "value" }

FlakyForecast ==
  { resp \in ForecastResponses :
      resp.kind = "reject" \/ (resp.kind = "ok" /\ IsSome(resp.body.hourly)) }

InitFlaky ==
  /\ now = 0
  /\ cache = << >>
  /\ calls = [ c \in Overlapping |-> IdleCall ]
  /\ probe = NoProbe

NextFlaky ==
  \/ \E c \in Overlapping : Call(c, FlakyCity, DefaultEnv)
  \/ \E c \in Overlapping : Match(c)
  \/ \E c \in Overlapping : MatchRejects(c)
  \/ \E c \in Overlapping, resp \in FlakyGeo : Geocode(c, resp)
  \/ \E c \in Overlapping, resp \in FlakyForecast : Forecast(c, resp)
  \/ \E c \in Overlapping : Put(c)
  \/ \E c \in Overlapping : PutRejects(c)
  \/ Tick

SpecFlaky == InitFlaky /\ [][NextFlaky]_vars

\* ------------------------------------------------------------------------
\* getWeatherByCity for raw cities that are empty or blank, under the mock
\* provider, with and without the cache
\* ------------------------------------------------------------------------
BlankCities == { << >>, << " " >>, << " ", " " >>, << " ", "S" >> }

BlankEnvs ==
  { [ WEATHER_PROVIDER |-> Some(SourceChars("mock")), WEATHER_CACHE_TTL_SECONDS |-> None,
      WEATHER_DISABLE_CACHE |-> d ] : d \in DisableSettings }

NextBlank ==
  \/ \E c \in Calls, city \in BlankCities, env \in BlankEnvs : Call(c, city, env)
  \/ \E c \in Calls : Match(c)
  \/ \E c \in Calls : MatchRejects(c)
  \/ \E c \in Calls : Put(c)
  \/ \E c \in Calls : PutRejects(c)
  \/ Tick

SpecBlank == Init /\ [][NextBlank]_vars

\* ------------------------------------------------------------------------
\* functions/api/advice.ts streamText: the events of the stream.
\*
\* A text is a sequence of characters.  text.match(/.{1,60}(\s|$)/g) scans
\* from the left: at a position it takes the longest run of 1 to 60
\* characters other than line terminators that is followed by a whitespace
\* character (taken into the match) or by the end of the text; where no such
\* run starts, the scan moves on by one character.
\* ------------------------------------------------------------------------
CHUNK_CHARS == 60

LineTerminators == { "\n" }

WhitespaceChars == { " ", "\n" }

\* number of characters from pos on that '.' matches one after the other
dotRun(text, pos) ==
  LET stops == { i \in pos..Len(text) : text[i] \in LineTerminators }
  IN  (IF stops = {} THEN Len(text) + 1 ELSE Min2(Len(text) + 1, CHOOSE i \in stops :
                                                   \A j \in stops : i <= j)) - pos

\* the last position of the match that starts at pos; 0 when none does
matchAt(text, pos) ==
  LET fits == { k \in 1..Min2(CHUNK_CHARS, dotRun(text, pos)) :
                  \/ pos + k - 1 = Len(text)
                  \/ text[pos + k] \in WhitespaceChars }
      longest == CHOOSE k \in fits : \A j \in fits : j <= k
  IN  IF fits = {} THEN 0
      ELSE IF pos + longest - 1 = Len(text) THEN Len(text)
      ELSE pos + longest

\* line 214: the matches of the global regular expression, as spans
RECURSIVE matchSpans(_, _)
matchSpans(text, pos) ==
  IF pos > Len(text) THEN << >>
  ELSE IF matchAt(text, pos) = 0 THEN matchSpans(text, pos + 1)
  ELSE << [ from |-> pos, to |-> matchAt(text, pos) ] >>
       \o matchSpans(text, matchAt(text, pos) + 1)

\* line 214: chunks, the whole text when nothing matches
streamChunks(text) ==
  LET spans == matchSpans(text, 1)
  IN  IF spans = << >> THEN << text >>
      ELSE [ i \in 1..Len(spans) |-> SubSeq(text, spans[i].from, spans[i].to) ]

DataPrefix == << "d", "a", "t", "a", ":", " " >>

DoneMark == << "[", "D", "O", "N", "E", "]" >>

EventEnd == << "\n", "\n" >>

\* lines 215-219: one event for each chunk, then the [DONE] event; the
\* stream is closed after the last
streamEvents(text) ==
  [ i \in 1..Len(streamChunks(text)) |-> DataPrefix \o streamChunks(text)[i] \o EventEnd ]
  \o << DataPrefix \o DoneMark \o EventEnd >>

\* streamText on its own: texts made of three runs of a letter with
\* separators between them, the runs around the chunk length
MaxRun == 75

RunLengths == { 0, 1, CHUNK_CHARS - 1, CHUNK_CHARS, CHUNK_CHARS + 1, MaxRun }

Separators == { << >>, << " " >>, << "\n" >>, << "\n", "\n" >> }

Run(n) == [ i \in 1..n |-> "a" ]

InitChunks ==
  /\ now = 0
  /\ cache = << >>
  /\ calls = [ c \in Calls |-> IdleCall ]
  /\ \E n1 \in RunLengths, n2 \in RunLengths, n3 \in RunLengths :
       \E s1 \in Separators, s2 \in Separators :
         probe = [ in |-> Some(Run(n1) \o s1 \o Run(n2) \o s2 \o Run(n3)), out |-> None ]

StreamText ==
  /\ IsSome(probe.in)
  /\ probe.out = None
  /\ probe' = [ probe EXCEPT
                 !.out = Some([ spans |-> matchSpans(Val(probe.in), 1),
                                events |-> streamEvents(Val(probe.in)) ]) ]
  /\ UNCHANGED << now, cache, calls >>

NextChunks == StreamText

SpecChunks == InitChunks /\ [][NextChunks]_vars

\* ------------------------------------------------------------------------
\* The advice stream and its reader (advice.ts streamText, ResultPage.vue
\* fetchAdvice; submitForm in App.vue runs the same loop).  The server side
\* is the sequence of controller operations of streamText, the wire is the
\* UTF-8 bytes of what it enqueued, and every read hands the client the next
\* bytes of the wire, cut anywhere.
\* ------------------------------------------------------------------------
MaxTextLen == 3

WideChar == "u4E2D"

ClientAlphabet == { "a", WideChar, " ", "\n" }

ClientTexts == UNION { [ 1..n -> ClientAlphabet ] : n \in 0..MaxTextLen }

\* fetch rejects | answers with a status that is not ok | answers with the
\* stream, which arrives whole, ends early, breaks with an error, or carries
\* one more event after [DONE]
Answers == { "rejects", "notOk", "stream", "cutShort", "aborted", "trailing" }

\* TextEncoder.encode: one byte for an ASCII character, three for U+4E2D
utf8(ch) == IF ch = WideChar THEN << "e4", "b8", "ad" >> ELSE << ch >>

RECURSIVE encode(_)
encode(str) == IF str = << >> THEN << >> ELSE utf8(Head(str)) \o encode(Tail(str))

\* TextDecoder.decode(value, { stream: true }): an incomplete sequence at the
\* end of the bytes is kept for the next call
RECURSIVE decodeStream(_, _, _)
decodeStream(bytes, pending, text) ==
  IF bytes = << >> THEN [ text |-> text, pending |-> pending ]
  ELSE LET seen == pending \o << Head(bytes) >>
       IN  IF seen = utf8(WideChar)
             THEN decodeStream(Tail(bytes), << >>, text \o << WideChar >>)
           ELSE IF Len(seen) < Len(utf8(WideChar)) /\ seen = SubSeq(utf8(WideChar), 1, Len(seen))
             THEN decodeStream(Tail(bytes), seen, text)
           ELSE decodeStream(Tail(bytes), << >>, text \o seen)

\* streamText's calls on the controller: one enqueue per chunk, the [DONE]
\* event, close
streamOps(text) ==
  [ i \in 1..Len(streamEvents(text)) |-> [ op |-> "enqueue", bytes |-> encode(streamEvents(text)[i]) ] ]
    \o << [ op |-> "close", bytes |-> << >> ] >>

RECURSIVE enqueued(_)
enqueued(ops) ==
  IF ops = << >> THEN << >>
  ELSE (IF Head(ops).op = "enqueue" THEN Head(ops).bytes ELSE << >>) \o enqueued(Tail(ops))

\* an event that is not streamText's, put on the wire after [DONE]
StrayEvent == DataPrefix \o << "z" >> \o EventEnd

\* String.prototype.split with a separator string
firstAt(str, sep) ==
  LET hits == { i \in 1..(Len(str) - Len(sep) + 1) : SubSeq(str, i, i + Len(sep) - 1) = sep }
  IN  IF hits = {} THEN 0 ELSE CHOOSE i \in hits : \A j \in hits : i <= j

RECURSIVE splitOn(_, _)
splitOn(str, sep) ==
  IF firstAt(str, sep) = 0 THEN << str >>
  ELSE << SubSeq(str, 1, firstAt(str, sep) - 1) >>
         \o splitOn(SubSeq(str, firstAt(str, sep) + Len(sep), Len(str)), sep)

startsWith(line, prefix) == Len(prefix) <= Len(line) /\ SubSeq(line, 1, Len(prefix)) = prefix

\* mutant: the terminator is taken for text
isDoneNever(data) == FALSE

\* data === '[DONE]'
isDone(data) == data = DoneMark

\* the inner loop over the lines of one event; returned is the return on
\* [DONE]
RECURSIVE onLines(_, _)
onLines(lines, st) ==
  IF lines = << >> \/ st.returned THEN st
  ELSE IF startsWith(Head(lines), DataPrefix)
    THEN LET data == SubSeq(Head(lines), Len(DataPrefix) + 1, Len(Head(lines)))
         IN  IF isDone(data) THEN [ st EXCEPT !.returned = TRUE ]
             ELSE onLines(Tail(lines), [ st EXCEPT !.streamOutput = @ \o data ])
  ELSE onLines(Tail(lines), st)

RECURSIVE onEvents(_, _)
onEvents(events, st) ==
  IF events = << >> \/ st.returned THEN st
  ELSE onEvents(Tail(events), onLines(splitOn(Head(events), << "\n" >>), st))

\* mutant: what is left of the buffer after the last complete event is
\* dropped instead of kept for the next read
restOfDropped(events) == << >>

\* buffer = events.pop() ?? ''
restOf(events) == events[Len(events)]

\* where a read ended, for the record: inside a multi-byte character,
\* between the two line feeds that end an event, elsewhere inside an event
tornAt(pending, rest) ==
  (IF pending # << >> THEN { "character" } ELSE {})
    \cup (IF rest # << >> /\ rest[Len(rest)] = "\n" THEN { "terminator" } ELSE {})
    \cup (IF rest # << >> /\ rest[Len(rest)] # "\n" THEN { "event" } ELSE {})

\* the component's state before fetchAdvice runs (the refs' initial values);
\* torn is not a variable of the code
IdleClient ==
  [ pc |-> "idle", controller |-> << >>, wire |-> << >>, pos |-> 0,
    pending |-> << >>, buffer |-> << >>, streamOutput |-> << >>,
    loading |-> FALSE, error |-> None, sawDone |-> FALSE, torn |-> {} ]

Client == Val(probe.out)

Request == Val(probe.in)

InitClient ==
  /\ now = 0
  /\ cache = << >>
  /\ calls = [ c \in Calls |-> IdleCall ]
  /\ \E text \in ClientTexts, answer \in Answers :
       probe = [ in |-> Some([ text |-> text, answer |-> answer ]), out |-> Some(IdleClient) ]

\* lines 165-168
StartFetch ==
  /\ Client.pc = "idle"
  /\ probe' = [ probe EXCEPT !.out = Some([ Client EXCEPT !.pc = "fetching",
                                             !.error = None,
                                             !.streamOutput = << >>,
                                             !.loading = TRUE ]) ]
  /\ UNCHANGED << now, cache, calls >>

\* fetch rejects: catch and finally
FetchRejects ==
  /\ Client.pc = "fetching"
  /\ Request.answer = "rejects"
  /\ probe' = [ probe EXCEPT !.out = Some([ Client EXCEPT !.pc = "returned",
                                             !.error = Some("fetch failed"),
                                             !.loading = FALSE ]) ]
  /\ UNCHANGED << now, cache, calls >>

\* !response.ok: throw, catch and finally
FetchNotOk ==
  /\ Client.pc = "fetching"
  /\ Request.answer = "notOk"
  /\ probe' = [ probe EXCEPT !.out = Some([ Client EXCEPT !.pc = "returned",
                                             !.error = Some("request failed"),
                                             !.loading = FALSE ]) ]
  /\ UNCHANGED << now, cache, calls >>

\* the server answers with streamText(text); the client takes the reader
FetchStream ==
  /\ Client.pc = "fetching"
  /\ Request.answer \in { "stream", "cutShort", "aborted", "trailing" }
  /\ LET ops == streamOps(Request.text)
     IN  probe' = [ probe EXCEPT
                    !.out = Some([ Client EXCEPT
                                   !.pc = "reading",
                                   !.controller = ops,
                                   !.wire = enqueued(ops)
                                             \o (IF Request.answer = "trailing"
                                                   THEN encode(StrayEvent) ELSE << >>) ]) ]
  /\ UNCHANGED << now, cache, calls >>

\* one turn of the while loop with done = false: the read hands over the
\* next k bytes
onRead(client, k) ==
  LET value == SubSeq(client.wire, client.pos + 1, client.pos + k)
      decoded == decodeStream(value, client.pending, << >>)
      events == splitOn(client.buffer \o decoded.text, EventEnd)
      st == onEvents(SubSeq(events, 1, Len(events) - 1),
                     [ streamOutput |-> client.streamOutput, returned |-> FALSE ])
  IN  [ client EXCEPT !.pos = @ + k,
                      !.pending = decoded.pending,
                      !.buffer = restOf(events),
                      !.streamOutput = st.streamOutput,
                      !.sawDone = st.returned,
                      !.torn = IF st.returned THEN @ ELSE @ \cup tornAt(decoded.pending, restOf(events)),
                      !.loading = IF st.returned THEN FALSE ELSE @,
                      !.pc = IF st.returned THEN "returned" ELSE @ ]

\* reader.read() has bytes to hand over
MoreToRead == Client.pc = "reading" /\ Client.pos < Len(Client.wire)

\* reader.read() reports the end: the wire is used up, or the stream ended
\* early
AtEnd ==
  /\ Client.pc = "reading"
  /\ Client.pos = Len(Client.wire) \/ Request.answer = "cutShort"

Read ==
  /\ MoreToRead
  /\ \E k \in 1..(Len(Client.wire) - Client.pos) :
       probe' = [ probe EXCEPT !.out = Some(onRead(Client, k)) ]
  /\ UNCHANGED << now, cache, calls >>

\* done = true: break and finally
ReadDone ==
  /\ AtEnd
  /\ probe' = [ probe EXCEPT !.out = Some([ Client EXCEPT !.pc = "returned",
                                             !.loading = FALSE ]) ]
  /\ UNCHANGED << now, cache, calls >>

\* reader.read() rejects: catch and finally
ReadRejects ==
  /\ Client.pc = "reading"
  /\ Request.answer = "aborted"
  /\ probe' = [ probe EXCEPT !.out = Some([ Client EXCEPT !.pc = "returned",
                                             !.error = Some("read failed"),
                                             !.loading = FALSE ]) ]
  /\ UNCHANGED << now, cache, calls >>

NextClient ==
  \/ StartFetch
  \/ FetchRejects
  \/ FetchNotOk
  \/ FetchStream
  \/ Read
  \/ ReadDone
  \/ ReadRejects

SpecClient == InitClient /\ [][NextClient]_vars

\* ------------------------------------------------------------------------
\* Properties
\* ------------------------------------------------------------------------
Did(r, op) == \E i \in 1..Len(r.ops) : r.ops[i] = op

Returned(c) == calls[c].pc = "done" /\ IsSome(calls[c].result)

Res(c) == Val(calls[c].result)

\* the provider settings that mean 'mock', and those that permit a live lookup
MockSpellings == { Some(SourceChars("mock")), Some(<< "M", "o", "c", "K" >>) }
LiveSpellings == { None, Some(SourceChars("open-meteo")) }

FlagSet(r) == r.env.WEATHER_DISABLE_CACHE = Some(<< "1" >>)

\* the live lookup of a call was made and gave no snapshot
LiveFailed(r) == Did(r, "geocode") /\ Did(r, "mock")

\* C1: every returned snapshot has temperatureC in [8,32] and humidity in
\* [30,85], whether live, mock or served from the cache.
C1_ReturnedWithinClamp ==
  \A c \in Calls :
    IsSome(calls[c].result) =>
      /\ Res(c).temperatureC >= 8 /\ Res(c).temperatureC <= 32
      /\ Res(c).humidity >= 30 /\ Res(c).humidity <= 85

\* a cache hit serving a live reading of 45 degrees and 10 percent
C1_Witness ==
  \E c \in Calls :
    /\ Returned(c)
    /\ Res(c).cacheStatus = Some("hit")
    /\ Res(c).source = "open-meteo"
    /\ Res(c).temperatureC = 32
    /\ Res(c).humidity = 30

\* C2: when the provider setting permits a live lookup and the live lookup
\* fails, the call raises nothing and returns a snapshot with source 'mock'.
C2_LiveFailureReturnsMock ==
  \A c \in Calls :
    ( /\ calls[c].pc = "done"
      /\ calls[c].env.WEATHER_PROVIDER \in LiveSpellings
      /\ LiveFailed(calls[c]) ) =>
      /\ ~calls[c].raised
      /\ IsSome(calls[c].result)
      /\ Res(c).source = "mock"

\* C3: when cache.put fails on the miss path, the call still returns the
\* computed, clamped snapshot and does not raise.
C3_StoreFailureReturns ==
  \A c \in Calls :
    ( calls[c].pc = "done" /\ calls[c].rejected = Some("put") ) =>
      /\ ~calls[c].raised
      /\ IsSome(calls[c].result)
      /\ Res(c).temperatureC = Val(calls[c].snapshot).temperatureC
      /\ Res(c).humidity = Val(calls[c].snapshot).humidity

\* C4: when the cache lookup fails, the call does not raise and ends by
\* returning a fully populated snapshot.
C4_LookupFailureReturns ==
  \A c \in Calls :
    ( calls[c].pc = "done" /\ calls[c].rejected = Some("match") ) =>
      /\ ~calls[c].raised
      /\ IsSome(calls[c].result)
      /\ IsSome(Res(c).cacheKey)
      /\ IsSome(Res(c).normalizedCity)
      /\ IsSome(Res(c).cacheStatus)

\* the bucket a call falls in, from the time it read and its TTL
BucketAt(r) == r.at \div (ttlSecondsOf(r.env) * 1000)

\* call a ran with provider 'mock' and the cache enabled, found no entry
\* for its key and returned
FirstMockCall(a) ==
  /\ Returned(a)
  /\ calls[a].env.WEATHER_PROVIDER \in MockSpellings
  /\ ~FlagSet(calls[a])
  /\ calls[a].found = Some(None)

\* call b began after call a had returned, with provider 'mock' and the
\* cache enabled, in a's bucket and for a city that normalizes as a's, and
\* returned
FollowingMockCall(a, b) ==
  /\ a \in calls[b].doneBefore
  /\ Returned(b)
  /\ calls[b].env.WEATHER_PROVIDER \in MockSpellings
  /\ ~FlagSet(calls[b])
  /\ BucketAt(calls[b]) = BucketAt(calls[a])
  /\ normalizedOf(calls[b].city) = normalizedOf(calls[a].city)

\* C5: with provider 'mock' and caching enabled, a first call that finds no
\* entry returns 'miss' with source 'mock'; a following call in the same
\* bucket for the same normalized city returns 'hit' with the condition,
\* temperatureC, humidity and source of the first, and with its observedAt
\* when the entry it reads is the one the first call stored.
C5_MissThenHit ==
  \A a \in Calls :
    FirstMockCall(a) =>
      /\ Res(a).cacheStatus = Some("miss")
      /\ Res(a).source = "mock"
      /\ \A b \in Calls :
           FollowingMockCall(a, b) =>
             /\ Res(b).cacheStatus = Some("hit")
             /\ Res(b).condition = Res(a).condition
             /\ Res(b).temperatureC = Res(a).temperatureC
             /\ Res(b).humidity = Res(a).humidity
             /\ Res(b).source = Res(a).source
             /\ ( /\ IsSome(calls[b].found)
                  /\ IsSome(Val(calls[b].found))
                  /\ Val(Val(calls[b].found)).writer = a )
                  => Res(b).observedAt = Res(a).observedAt

\* a repeat call, later in the same bucket and under another spelling
C5_Witness ==
  \E a, b \in Calls :
    /\ FirstMockCall(a)
    /\ FollowingMockCall(a, b)
    /\ calls[b].city # calls[a].city
    /\ calls[b].at > calls[a].at
    /\ Res(b).cacheStatus = Some("hit")

\* C6 (state part): a call made with the cache disabled issues no lookup
\* and no store, and what it returns is tagged 'bypass'.
C6_BypassNoCacheOps ==
  \A c \in Calls :
    ( calls[c].pc # "idle" /\ FlagSet(calls[c]) ) =>
      /\ ~Did(calls[c], "match")
      /\ ~Did(calls[c], "put")
      /\ calls[c].found = None
      /\ calls[c].pc = "done" =>
           ( Returned(c) /\ Res(c).cacheStatus = Some("bypass") )

\* C6 (step part): no step of a call made with the cache disabled changes
\* the cache.
C6_BypassLeavesCache ==
  \A c \in Calls :
    ( calls'[c] # calls[c] /\ FlagSet(calls'[c]) ) => cache' = cache

\* C6: when cache bypass is configured, every call returns 'bypass',
\* performs neither a cache lookup nor a cache store and leaves the cache
\* contents unchanged, also when an entry for its key exists.
C6_Bypass == [] C6_BypassNoCacheOps /\ [][C6_BypassLeavesCache]_vars

\* a bypassing call returns while the cache holds an entry under its key,
\* stored by an earlier call
C6_Witness ==
  \E a, b \in Calls :
    /\ a \in calls[b].doneBefore
    /\ ~FlagSet(calls[a])
    /\ FlagSet(calls[b])
    /\ Returned(b)
    /\ Res(b).cacheStatus = Some("bypass")
    /\ cacheKeyOf(calls[b]) \in DOMAIN cache
    /\ cache[cacheKeyOf(calls[b])].writer = a

\* C7: on a cache hit the returned snapshot equals the stored payload in
\* every field except cacheKey, normalizedCity and cacheStatus, which are
\* the call's own key, its normalized city and 'hit'; the stored
\* cacheStatus ('miss') does not appear.
C7_HitOverlay ==
  \A c \in Calls :
    ( /\ IsSome(calls[c].result)
      /\ IsSome(calls[c].found)
      /\ IsSome(Val(calls[c].found)) ) =>
      LET stored == Val(Val(calls[c].found)).payload
      IN  /\ \A f \in RequiredFields : Res(c)[f] = stored[f]
          /\ \A f \in { "observedAt", "geocode" } :
               IF f \in DOMAIN stored
                 THEN Res(c)[f] = Some(stored[f])
                 ELSE Res(c)[f] = None
          /\ Res(c).cacheKey = Some(cacheKeyOf(calls[c]))
          /\ Res(c).normalizedCity = Some(normalizedOf(calls[c].city))
          /\ Res(c).cacheStatus = Some("hit")

\* a hit on a live entry stored with cacheStatus 'miss', read by a call
\* that spells the city differently from the call that stored it
C7_Witness ==
  \E c \in Calls :
    /\ Returned(c)
    /\ IsSome(calls[c].found)
    /\ IsSome(Val(calls[c].found))
    /\ Val(Val(calls[c].found)).payload.cacheStatus = "miss"
    /\ Val(Val(calls[c].found)).payload.source = "open-meteo"
    /\ calls[Val(Val(calls[c].found)).writer].city # calls[c].city
    /\ Res(c).cacheStatus = Some("hit")

\* C8: every returned snapshot has cacheKey, normalizedCity and cacheStatus
\* populated; cacheStatus is 'bypass' exactly when the cache-disable flag
\* is set, 'hit' exactly when caching is enabled and the lookup found an
\* entry, 'miss' exactly when caching is enabled and the lookup found none.
C8_StatusPopulated ==
  \A c \in Calls :
    IsSome(calls[c].result) =>
      /\ Res(c).cacheKey = Some(cacheKeyOf(calls[c]))
      /\ Res(c).normalizedCity = Some(normalizedOf(calls[c].city))
      /\ IsSome(Res(c).cacheStatus)
      /\ Val(Res(c).cacheStatus) \in { "hit", "miss", "bypass" }
      /\ Res(c).cacheStatus = Some("bypass") <=> FlagSet(calls[c])
      /\ Res(c).cacheStatus = Some("hit") <=>
           ( ~FlagSet(calls[c]) /\ calls[c].found # None /\ calls[c].found # Some(None) )
      /\ Res(c).cacheStatus = Some("miss") <=>
           ( ~FlagSet(calls[c]) /\ calls[c].found = Some(None) )

\* a miss for the placeholder city and a later hit on the entry it stored
C8_Witness ==
  \E a, b \in Calls :
    /\ Returned(a) /\ Returned(b)
    /\ Res(a).cacheStatus = Some("miss")
    /\ Res(b).cacheStatus = Some("hit")
    /\ Res(a).cacheKey = Res(b).cacheKey
    /\ Res(b).normalizedCity = Some(PLACEHOLDER_CITY)

\* C9: with provider setting 'mock' in any letter case no geocode or
\* forecast request is issued and every returned snapshot has source
\* 'mock', whatever earlier calls stored.
C9_MockNeverLive ==
  \A c \in Calls :
    ( calls[c].pc # "idle" /\ calls[c].env.WEATHER_PROVIDER \in MockSpellings ) =>
      /\ ~Did(calls[c], "geocode")
      /\ ~Did(calls[c], "forecast")
      /\ IsSome(calls[c].result) => Res(c).source = "mock"

\* a call under the setting 'MocK' returns after a live snapshot for the
\* same city and bucket was stored
C9_Witness ==
  \E a, b \in Calls :
    /\ a \in calls[b].doneBefore
    /\ Returned(a) /\ Res(a).source = "open-meteo"
    /\ ~FlagSet(calls[a]) /\ ~FlagSet(calls[b])
    /\ calls[b].env.WEATHER_PROVIDER = Some(<< "M", "o", "c", "K" >>)
    /\ normalizedOf(calls[b].city) = normalizedOf(calls[a].city)
    /\ calls[b].bucket = calls[a].bucket
    /\ Returned(b)

\* C10: buildWeatherCacheKey is injective: two (provider, normalizedCity,
\* bucket) triples have the same key exactly when they are the same triple,
\* also for cities containing ':' or digits.
C10_KeyInjective ==
  IsSome(probe.out) =>
    ( Val(probe.out)[1] = Val(probe.out)[2] <=> Val(probe.in)[1] = Val(probe.in)[2] )

\* two triples whose city followed by the bucket read the same
C10_Witness ==
  /\ IsSome(probe.out)
  /\ Val(probe.in)[1] # Val(probe.in)[2]
  /\ Val(probe.in)[1].provider = Val(probe.in)[2].provider
  /\ \E i \in 1..Len(Val(probe.in)[1].normalizedCity) :
       Val(probe.in)[1].normalizedCity[i] = ":"
  /\ Val(probe.in)[1].normalizedCity \o NumToStr(Val(probe.in)[1].bucket)
       = Val(probe.in)[2].normalizedCity \o NumToStr(Val(probe.in)[2].bucket)

\* C11: every key reads weather:<version>:<provider>:<normalized-city>:<bucket>,
\* and a key built under one version tag never equals a key built under the
\* other, whatever the provider, city and bucket: the entry stored by the
\* older build is never a hit for the newer one.
KeyPrefix == << "w", "e", "a", "t", "h", "e", "r" >>

HasKeyForm(key, t) ==
  LET head == KeyPrefix \o << ":" >> \o t.version \o << ":" >>
      tail == << ":" >> \o NumToStr(t.bucket)
      mid == SubSeq(key, Len(head) + 1, Len(key) - Len(tail))
  IN  /\ Len(key) >= Len(head) + Len(tail)
      /\ SubSeq(key, 1, Len(head)) = head
      /\ SubSeq(key, Len(key) - Len(tail) + 1, Len(key)) = tail
      /\ mid = (IF t.provider = "mock" THEN << "m", "o", "c", "k" >>
                ELSE << "o", "p", "e", "n", "-", "m", "e", "t", "e", "o" >>)
                 \o << ":" >> \o t.normalizedCity

C11_VersionSeparates ==
  IsSome(probe.out) =>
    LET a == Val(probe.in)[1]
        b == Val(probe.in)[2]
        o == Val(probe.out)
    IN  /\ HasKeyForm(o.stored, a)
        /\ HasKeyForm(o.wanted, b)
        /\ a.version # b.version => (o.stored # o.wanted /\ ~o.hit)

\* an entry of the older build and a lookup by the newer one for the same
\* provider, city and bucket
C11_Witness ==
  /\ IsSome(probe.out)
  /\ Val(probe.in)[1].version = OLD_WEATHER_VERSION
  /\ Val(probe.in)[2].version = WEATHER_VERSION
  /\ Val(probe.in)[1].provider = Val(probe.in)[2].provider
  /\ Val(probe.in)[1].normalizedCity = Val(probe.in)[2].normalizedCity
  /\ Val(probe.in)[1].normalizedCity # << >>
  /\ Val(probe.in)[1].bucket = Val(probe.in)[2].bucket
  /\ ~Val(probe.out).hit

\* the provider key and the bucket of a call as the claim words them, for a
\* call that leaves the TTL at its default
ClaimProviderKey(r) ==
  IF r.env.WEATHER_PROVIDER \in MockSpellings THEN "mock" ELSE "open-meteo"

ClaimBucket(r) == r.at \div (600 * 1000)

\* call b began after call a had returned; both ran with the cache enabled
\* and the default TTL, for the same provider key and normalized city, and
\* b returned
FollowsCompleted(a, b) ==
  /\ a \in calls[b].doneBefore
  /\ Returned(a)
  /\ Returned(b)
  /\ ~FlagSet(calls[a]) /\ ~FlagSet(calls[b])
  /\ calls[a].env.WEATHER_CACHE_TTL_SECONDS = None
  /\ calls[b].env.WEATHER_CACHE_TTL_SECONDS = None
  /\ ClaimProviderKey(calls[a]) = ClaimProviderKey(calls[b])
  /\ normalizedOf(calls[a].city) = normalizedOf(calls[b].city)

\* C12: with the TTL fixed and caching enabled the bucket is
\* floor(now_ms / (ttl * 1000)); a call that follows a completed call for
\* the same provider key and normalized city is a hit when both fall in one
\* bucket and, when they fall in different buckets, is a hit only on an
\* entry some call of its own bucket stored, so a miss after the earlier
\* call alone, however close in time the two calls are.
C12_BucketDecidesHit ==
  \A a, b \in Calls :
    FollowsCompleted(a, b) =>
      /\ calls[a].bucket = ClaimBucket(calls[a])
      /\ calls[b].bucket = ClaimBucket(calls[b])
      /\ ClaimBucket(calls[a]) = ClaimBucket(calls[b])
           => Res(b).cacheStatus = Some("hit")
      /\ ClaimBucket(calls[a]) # ClaimBucket(calls[b])
           => \/ Res(b).cacheStatus = Some("miss")
              \/ /\ IsSome(calls[b].found)
                 /\ IsSome(Val(calls[b].found))
                 /\ ClaimBucket(calls[Val(Val(calls[b].found)).writer])
                      = ClaimBucket(calls[b])

\* two calls one millisecond apart, across a bucket boundary: the second
\* misses although the first stored a live reading
C12_Witness ==
  \E a, b \in Calls :
    /\ FollowsCompleted(a, b)
    /\ calls[a].at = 599999
    /\ calls[b].at = 600000
    /\ Res(a).source = "open-meteo"
    /\ Res(a).cacheStatus = Some("miss")
    /\ Res(b).cacheStatus = Some("miss")

\* C13: normalization as getWeatherByCity applies it (the placeholder for
\* an empty raw city, then trim and lower-case) is idempotent: normalizing
\* the normalized city again gives the normalized city.
C13_NormalizeIdempotent ==
  IsSome(probe.out) => Val(probe.out).twice = Val(probe.out).once

\* C14: for an empty raw city the placeholder is the normalized city: the
\* returned normalizedCity is the placeholder, the returned cacheKey is
\* built on it, and a mock snapshot carries the values its hash gives
\* (hash 3489675016: 8 + hash mod 25, 30 + (hash >> 8) mod 56, label
\* (hash >> 16) mod 6).
C14_EmptyCityIsPlaceholder ==
  \A c \in Calls :
    ( Returned(c) /\ calls[c].city = << >> ) =>
      /\ Res(c).normalizedCity = Some(<< "u672A", "u77E5" >>)
      /\ Res(c).cacheKey =
           Some(KeyPrefix \o << ":", "v", "3", ":" >>
                  \o SourceChars(ClaimProviderKey(calls[c]))
                  \o << ":", "u672A", "u77E5", ":" >>
                  \o NumToStr(ClaimBucket(calls[c])))
      /\ Res(c).source = "mock" =>
           /\ Res(c).temperatureC = 24
           /\ Res(c).humidity = 53
           /\ Res(c).condition = "showers"

\* an empty raw city answered by the mock generator and stored
C14_Witness ==
  \E c \in Calls :
    /\ Returned(c)
    /\ calls[c].city = << >>
    /\ Res(c).source = "mock"
    /\ Res(c).cacheStatus = Some("miss")
    /\ Res(c).cacheKey \in { Some(k) : k \in DOMAIN cache }

\* C15: the mock generator is deterministic in the normalized city alone:
\* two returned mock snapshots for the same normalized city have the same
\* condition, temperatureC and humidity, whatever the raw spellings, the
\* configurations, the times and the state of the cache; observedAt is free.
C15_MockDeterministic ==
  \A a, b \in Calls :
    ( /\ Returned(a) /\ Returned(b)
      /\ Res(a).source = "mock" /\ Res(b).source = "mock"
      /\ Res(a).normalizedCity = Res(b).normalizedCity ) =>
      /\ Res(a).condition = Res(b).condition
      /\ Res(a).temperatureC = Res(b).temperatureC
      /\ Res(a).humidity = Res(b).humidity

\* two freshly generated mock snapshots for one normalized city: another
\* spelling, another configuration, another time, one call storing while
\* the other bypasses the cache
C15_Witness ==
  \E a, b \in Calls :
    /\ Returned(a) /\ Returned(b)
    /\ Res(a).source = "mock" /\ Res(b).source = "mock"
    /\ Res(a).normalizedCity = Res(b).normalizedCity
    /\ calls[a].city # calls[b].city
    /\ calls[a].env.WEATHER_PROVIDER \in MockSpellings
    /\ calls[b].env.WEATHER_PROVIDER \in LiveSpellings
    /\ Res(a).cacheStatus = Some("miss")
    /\ Res(b).cacheStatus = Some("bypass")
    /\ Res(a).observedAt # Res(b).observedAt

\* The FNV-1a fold written out on four bytes, least significant first.
\* 2166136261 = 0x811C9DC5
RefStart == << 197, 157, 28, 129 >>

\* xor of two bytes, bit by bit
RefXor(a, b) ==
  LET bit(w) == ((a \div w) + (b \div w)) % 2
  IN  bit(1) + 2 * bit(2) + 4 * bit(4) + 8 * bit(8) + 16 * bit(16) + 32 * bit(32)
        + 64 * bit(64) + 128 * bit(128)

\* bytes of x xor code, for a character code below 2^16
RefXorCode(x, code) ==
  << RefXor(x[1], code % 256), RefXor(x[2], code \div 256), x[3], x[4] >>

\* x * 16777619 modulo 2^32 by long multiplication;
\* 16777619 = 0x01000193 has the bytes 147, 1, 0, 1
RefTimesPrime(x) ==
  LET c1 == x[1] * 147
      c2 == x[2] * 147 + x[1] + (c1 \div 256)
      c3 == x[3] * 147 + x[2] + (c2 \div 256)
      c4 == x[4] * 147 + x[3] + x[1] + (c3 \div 256)
  IN  << c1 % 256, c2 % 256, c3 % 256, c4 % 256 >>

RECURSIVE RefFnv1a(_, _)
RefFnv1a(x, s) ==
  IF s = << >> THEN x
  ELSE RefFnv1a(RefTimesPrime(RefXorCode(x, charCodeAt(Head(s)))), Tail(s))

\* x mod m, and (x >> 8) and (x >> 16)
RefMod(x, m) == ((((((x[4] % m) * 256 + x[3]) % m) * 256 + x[2]) % m) * 256 + x[1]) % m
RefShr8(x) == x[2] + 256 * x[3] + 65536 * x[4]
RefShr16(x) == x[3] + 256 * x[4]

RefLabels == << "clear", "cloudy", "overcast", "light-rain", "showers", "fog" >>

\* C16: hashString is the 32-bit FNV-1a fold (start 2166136261; per
\* character xor the code, then multiply by 16777619 modulo 2^32) as an
\* unsigned value below 2^32, and the mock snapshot has temperatureC
\* 8 + hash mod 25, humidity 30 + (hash >> 8) mod 56 and the label at
\* (hash >> 16) mod 6 of the six-label list.
C16_HashIsFnv1a ==
  IsSome(probe.out) =>
    LET ref == RefFnv1a(RefStart, Val(probe.in))
        o == Val(probe.out)
    IN  /\ o.hash.hi \in 0..65535
        /\ o.hash.lo \in 0..65535
        /\ o.hash.hi = ref[4] * 256 + ref[3]
        /\ o.hash.lo = ref[2] * 256 + ref[1]
        /\ o.mock.temperatureC = 8 + RefMod(ref, 25)
        /\ o.mock.humidity = 30 + (RefShr8(ref) % 56)
        /\ o.mock.condition = RefLabels[(RefShr16(ref) % 6) + 1]

\* ' Sh' hashes to 3166276420 = 48313 * 65536 + 35652, above 2^31:
\* 28 degrees, 81 percent, the second label
C16_Witness ==
  /\ IsSome(probe.out)
  /\ Val(probe.in) = << " ", "S", "h" >>
  /\ Val(probe.out).hash = [ hi |-> 48313, lo |-> 35652 ]
  /\ Val(probe.out).mock.temperatureC = 28
  /\ Val(probe.out).mock.humidity = 81
  /\ Val(probe.out).mock.condition = "cloudy"

\* the candidate list given to the choice, by provider position
Given == Val(probe.in).results

IsChina(i) == Given[i].country_code = Some("CN")

\* equal ignoring case
SameFolded(a, b) == toLowerCase(a) = toLowerCase(b)

\* the positions that survive the country step
AfterCountryStep ==
  IF \E i \in 1..Len(Given) : IsChina(i)
    THEN { i \in 1..Len(Given) : IsChina(i) }
    ELSE 1..Len(Given)

\* C17: when at least one candidate has country code CN the chosen
\* candidate has country code CN, wherever the CN candidates stand in
\* provider order and even when the admin hint or the exact name matches
\* only a candidate of another country.
C17_ChinaFirst ==
  ( IsSome(probe.out) /\ \E i \in 1..Len(Given) : IsChina(i) ) =>
    /\ IsSome(Val(probe.out).location)
    /\ Val(Val(probe.out).location).country_code = Some("CN")

\* the first candidate is of another country and matches both the name and
\* the admin hint; the CN candidate after it matches neither and is chosen
C17_Witness ==
  /\ IsSome(probe.out)
  /\ Len(Given) = 2
  /\ ~IsChina(1) /\ IsChina(2)
  /\ IsSome(Val(probe.out).targetAdmin)
  /\ SameFolded(OrEmpty(Given[1].admin1), Val(Val(probe.out).targetAdmin))
  /\ SameFolded(OrEmpty(Given[1].name), Val(probe.out).targetName)
  /\ ~SameFolded(OrEmpty(Given[2].admin1), Val(Val(probe.out).targetAdmin))
  /\ ~SameFolded(OrEmpty(Given[2].name), Val(probe.out).targetName)
  /\ Val(probe.out).location = Some(Given[2])

\* the positions, among those that survive the country step, whose admin
\* region equals the hint ignoring case
MatchingAdmin ==
  { i \in AfterCountryStep :
      /\ IsSome(Val(probe.out).targetAdmin)
      /\ SameFolded(OrEmpty(Given[i].admin1), Val(Val(probe.out).targetAdmin)) }

\* C18: when an admin hint is given and at least one candidate that
\* survives the country step has an admin region equal to the hint ignoring
\* case, the chosen candidate's admin region equals the hint ignoring case,
\* even when that candidate is not first in provider order.
C18_AdminHintNarrows ==
  ( IsSome(probe.out) /\ MatchingAdmin # {} ) =>
    /\ IsSome(Val(probe.out).location)
    /\ IsSome(Val(Val(probe.out).location).admin1)
    /\ SameFolded(Val(Val(Val(probe.out).location).admin1),
                  Val(Val(probe.out).targetAdmin))

\* the hint differs in case from the region of the second candidate, the
\* first candidate has the exact name and another region: the second is
\* chosen
C18_Witness ==
  /\ IsSome(probe.out)
  /\ Len(Given) = 2
  /\ MatchingAdmin = { 2 }
  /\ AfterCountryStep = { 1, 2 }
  /\ Given[2].admin1 # Val(probe.out).targetAdmin
  /\ SameFolded(OrEmpty(Given[1].name), Val(probe.out).targetName)
  /\ ~SameFolded(OrEmpty(Given[2].name), Val(probe.out).targetName)
  /\ Val(probe.out).location = Some(Given[2])

\* the positions that survive the admin step, and among them those whose
\* name equals the target ignoring case
AfterAdminStep == IF MatchingAdmin # {} THEN MatchingAdmin ELSE AfterCountryStep

MatchingName ==
  { i \in AfterAdminStep : SameFolded(OrEmpty(Given[i].name), Val(probe.out).targetName) }

Earliest(S) == CHOOSE i \in S : \A j \in S : i <= j

\* C19: each filter replaces the list only when it leaves something, the
\* survivors keep provider order, and the result is a member of the input
\* list: the first survivor whose name equals the target ignoring case,
\* else the first survivor; it is absent only for the empty input list.
C19_NarrowingPipeline ==
  IsSome(probe.out) =>
    IF Len(Given) = 0
      THEN Val(probe.out).location = None
      ELSE /\ AfterAdminStep # {}
           /\ Val(probe.out).location =
                Some(Given[IF MatchingName # {} THEN Earliest(MatchingName)
                           ELSE Earliest(AfterAdminStep)])

\* no CN candidate and no candidate of the hinted region, so both filters
\* are skipped; the second candidate has the exact name and is chosen
C19_Witness ==
  /\ IsSome(probe.out)
  /\ Len(Given) = 2
  /\ IsSome(Val(probe.out).targetAdmin)
  /\ AfterCountryStep = { 1, 2 }
  /\ ~IsChina(1)
  /\ MatchingAdmin = {}
  /\ MatchingName = { 2 }
  /\ Val(probe.out).location = Some(Given[2])
  /\ Val(probe.out).location # Some(Given[1])

\* the geocode response the call got, and the candidate the disambiguation
\* chooses from it for the call's city
Answered == Val(probe.in)

Chosen ==
  selectGeocodeResult(Val(Answered.body.results),
                      mapCityName(parseCityAndAdmin(calls[1].city).name),
                      parseCityAndAdmin(calls[1].city).admin1)

NoCandidates ==
  \/ ~IsSome(Answered.body.results)
  \/ Val(Answered.body.results) = << >>

ChosenLacksCoordinate ==
  /\ ~NoCandidates
  /\ IsSome(Chosen)
  /\ \/ ~IsSome(Val(Chosen).latitude)
     \/ ~IsSome(Val(Chosen).longitude)

\* C20: when the provider answers with no candidates, or the candidate the
\* disambiguation chooses lacks latitude or longitude, the geocode step
\* fails: no forecast request is issued and the call goes on with a mock
\* snapshot; no other candidate is tried, even one that has coordinates.
C20_GeocodeFailure ==
  ( /\ IsSome(probe.in)
    /\ Answered.kind = "ok"
    /\ NoCandidates \/ ChosenLacksCoordinate ) =>
    /\ ~Did(calls[1], "forecast")
    /\ calls[1].pc \in { "put", "done" }
    /\ calls[1].location = None
    /\ Did(calls[1], "mock")
    /\ IsSome(calls[1].snapshot)
    /\ Val(calls[1].snapshot).source = "mock"

\* the chosen candidate has a latitude and no longitude, the next one has
\* both, and the call returns a mock snapshot
C20_Witness ==
  /\ IsSome(probe.in)
  /\ Answered.kind = "ok"
  /\ ChosenLacksCoordinate
  /\ IsSome(Val(Chosen).latitude)
  /\ Len(Val(Answered.body.results)) = 2
  /\ Chosen = Some(Val(Answered.body.results)[1])
  /\ IsSome(Val(Answered.body.results)[2].latitude)
  /\ IsSome(Val(Answered.body.results)[2].longitude)
  /\ Returned(1)
  /\ Res(1).source = "mock"

\* the forecast body read, and its two parts with every field absent when
\* the part is absent
Body == Val(probe.in)

BodyCurrent == IF IsSome(Body.current) THEN Val(Body.current) ELSE NoCurrent
BodyHourly == IF IsSome(Body.hourly) THEN Val(Body.hourly) ELSE NoHourly

CurrentComplete ==
  IsSome(BodyCurrent.temperature_2m) /\ IsSome(BodyCurrent.relative_humidity_2m)

\* the timestamp looked for in the hourly series: the current reading's,
\* or the top of the clock's hour ('YYYY-MM-DDTHH:00')
WantedTime ==
  IF IsSome(BodyCurrent.time) THEN Val(BodyCurrent.time)
  ELSE [ fmt |-> "min", v |-> 60 * (now \div 3600000) ]

\* positions (from 1) of the hourly timestamps equal to the wanted one
TimeMatches ==
  IF IsSome(BodyHourly.time)
    THEN { i \in 1..Len(Val(BodyHourly.time)) : Val(BodyHourly.time)[i] = WantedTime }
    ELSE {}

HourlyPosition == IF TimeMatches # {} THEN Earliest(TimeMatches) ELSE 1

\* element i of an optional series, absent when the series is absent or short
Element(series, i) ==
  IF IsSome(series) /\ i <= Len(Val(series)) THEN Some(Val(series)[i]) ELSE None

\* the reading finally selected
Selected ==
  IF CurrentComplete
    THEN [ temperature |-> BodyCurrent.temperature_2m,
           humidity |-> BodyCurrent.relative_humidity_2m,
           time |-> BodyCurrent.time ]
    ELSE [ temperature |-> Element(BodyHourly.temperature_2m, HourlyPosition),
           humidity |-> Element(BodyHourly.relative_humidity_2m, HourlyPosition),
           time |-> Element(BodyHourly.time, HourlyPosition) ]

\* C21: the current reading is used when it has both temperature and
\* humidity; otherwise the hourly series is read at the first index whose
\* timestamp equals the current reading's timestamp (the top of the hour
\* when it has none), or at index 0 when no timestamp matches; the step
\* fails exactly when the reading so selected lacks temperature or humidity.
C21_ReadingSelection ==
  IsSome(probe.out) =>
    IF ~IsSome(Selected.temperature) \/ ~IsSome(Selected.humidity)
      THEN Val(probe.out).kind = "null"
      ELSE /\ Val(probe.out).kind = "value"
           /\ Val(Val(probe.out).value).temperatureC = Val(Selected.temperature)
           /\ Val(Val(probe.out).value).humidity = Val(Selected.humidity)
           /\ Val(Val(probe.out).value).observedAt = Selected.time

\* the current reading has a temperature, no humidity and no timestamp; the
\* clock's hour is the second entry of the hourly series, which is read
C21_Witness ==
  /\ IsSome(probe.out)
  /\ IsSome(BodyCurrent.temperature_2m)
  /\ ~CurrentComplete
  /\ ~IsSome(BodyCurrent.time)
  /\ TimeMatches = { 2 }
  /\ Val(probe.out).kind = "value"
  /\ Val(Val(probe.out).value).temperatureC = 21
  /\ Val(Val(probe.out).value).humidity = 99
  /\ Val(Val(probe.out).value).observedAt = Some(Minute(60))

\* the threshold table, in order: inclusive upper bound and label
ThresholdTable ==
  << << 3, "cloudy" >>, << 48, "overcast" >>, << 67, "light-rain" >>,
     << 77, "light-snow" >>, << 82, "showers" >>, << 86, "snow-showers" >> >>

\* the label of the first row whose bound the code does not exceed
TableLabel(code) ==
  LET rows == { i \in 1..Len(ThresholdTable) : code <= ThresholdTable[i][1] }
  IN  IF code = 0 THEN "clear"
      ELSE IF rows = {} THEN "unknown"
      ELSE ThresholdTable[Earliest(rows)][2]

\* C22: mapWeatherCode follows the ordered threshold table, first match
\* winning: 0 clear, then <= 3 cloudy, <= 48 overcast, <= 67 light-rain,
\* <= 77 light-snow, <= 82 showers, <= 86 snow-showers, every other code and
\* an absent code unknown; the live path carries that label and so never
\* the fog label.
C22_ThresholdTable ==
  IsSome(probe.out) =>
    /\ Val(probe.out).label =
         (IF IsSome(Val(probe.in)) THEN TableLabel(Val(Val(probe.in))) ELSE "unknown")
    /\ Val(probe.out).label # "fog"
    /\ Val(probe.out).live.kind = "value"
    /\ Val(Val(probe.out).live.value).condition = Val(probe.out).label

\* code 48, the last code of the overcast row, through the live path
C22_Witness ==
  /\ IsSome(probe.out)
  /\ Val(probe.in) = Some(48)
  /\ Val(probe.out).label = "overcast"
  /\ Val(Val(probe.out).live.value).condition = "overcast"

\* C23: the whole live lookup of a call, geocode request and forecast
\* request together, is bounded by the configured timeout: no request of
\* the lookup is still in flight once more than that much time has passed
\* since the lookup began, and a lookup that is aborted ends in a mock
\* result and not in an exception.
C23_LookupBounded ==
  /\ InFlight => now - Val(probe.in).began <= 4000
  /\ probe.out = Some("aborted") =>
       /\ ~calls[1].raised
       /\ IsSome(calls[1].result)
       /\ Res(1).source = "mock"

\* C24 as stated: a key that holds an entry is not written again.
C24_NeverRewritten ==
  [][ \A k \in DOMAIN cache : k \in DOMAIN cache' /\ cache'[k] = cache[k] ]_vars

\* C24, amended: an entry is written again only by a call that looked its
\* key up before the entry was stored and found nothing (a miss concurrent
\* with the first writer's); a call that looks the key up once the entry is
\* there never writes it, and entries are never removed.
C24_RewrittenOnlyByConcurrentMiss ==
  [][ \A k \in DOMAIN cache :
        /\ k \in DOMAIN cache'
        /\ cache'[k] # cache[k] =>
             /\ calls[cache'[k].writer].pc = "put"
             /\ calls[cache'[k].writer].found = Some(None)
             /\ cacheKeyOf(calls[cache'[k].writer]) = k ]_vars

\* two calls both missed on one key and both stored under it
C24_Witness ==
  \E a, b \in Calls :
    /\ a # b
    /\ Returned(a) /\ Returned(b)
    /\ Res(a).cacheStatus = Some("miss")
    /\ Res(b).cacheStatus = Some("miss")
    /\ Res(a).cacheKey = Res(b).cacheKey
    /\ \E k \in DOMAIN cache : Some(k) = Res(a).cacheKey

\* calls a and b both found no entry under one key and both stored under it
BothMissedAndStored(a, b) ==
  /\ a # b
  /\ Returned(a) /\ Returned(b)
  /\ Res(a).cacheStatus = Some("miss")
  /\ Res(b).cacheStatus = Some("miss")
  /\ Res(a).cacheKey = Res(b).cacheKey

\* C25: when two concurrent calls for one city and bucket both miss and
\* both write, the two writes store the same condition, temperatureC,
\* humidity and source, so that the entry left does not depend on which
\* write came last.
C25_SameValuesWritten ==
  \A a, b \in Calls :
    BothMissedAndStored(a, b) =>
      /\ Val(calls[a].snapshot).condition = Val(calls[b].snapshot).condition
      /\ Val(calls[a].snapshot).temperatureC = Val(calls[b].snapshot).temperatureC
      /\ Val(calls[a].snapshot).humidity = Val(calls[b].snapshot).humidity
      /\ Val(calls[a].snapshot).source = Val(calls[b].snapshot).source

\* C26: a returned snapshot carries geocode metadata only if its source is
\* the live provider; every returned snapshot whose source is the live
\* provider carries geocode metadata with latitude and longitude; mock
\* snapshots carry none, also when served from the cache.
C26_GeocodeIffLive ==
  \A c \in Calls :
    Returned(c) =>
      /\ IsSome(Res(c).geocode) => Res(c).source = "open-meteo"
      /\ Res(c).source = "open-meteo" =>
           /\ IsSome(Res(c).geocode)
           /\ IsSome(Val(Res(c).geocode).latitude)
           /\ IsSome(Val(Res(c).geocode).longitude)
      /\ Res(c).source = "mock" => Res(c).geocode = None

\* a call is served from the cache the live snapshot another call stored,
\* with the coordinates of the chosen candidate
C26_Witness ==
  \E a, b \in Calls :
    /\ Returned(a) /\ Returned(b)
    /\ Res(b).cacheStatus = Some("miss")
    /\ Res(b).source = "open-meteo"
    /\ Res(a).cacheStatus = Some("hit")
    /\ Res(a).source = "open-meteo"
    /\ IsSome(Res(a).geocode)
    /\ Val(Res(a).geocode).latitude = Some(31)
    /\ Val(Res(a).geocode).longitude = Some(31)


\* ------------------------------------------------------------------------
\* C27  Human verification in POST /api/advice.  Without a TURNSTILE_SECRET
\* the handler never contacts the verification service and goes on to the
\* advice cache.  With a secret, a request without a token is answered 403
\* at once, and a token that the service does not confirm (a non-2xx answer,
\* or an answer whose success is not true) is answered 403; a verification
\* request that raises is answered 400.  In none of these cases has the
\* handler begun an advice-cache read or write, a weather lookup or a
\* backend call.
\* ------------------------------------------------------------------------
Received == IsSome(probe.in) /\ IsSome(Val(probe.in).body)

SecretConfigured == ~Falsy(AdviceEnvOf.TURNSTILE_SECRET)

Begun(op) == \E i \in 1..Len(Handler.ops) : Handler.ops[i] = op

WorkOps == { "adviceMatch", "weatherMatch", "weatherPut", "backend", "advicePut" }

NoWorkBegun == \A op \in WorkOps : ~Begun(op)

NotConfirming(resp) == resp.kind = "notok" \/ (resp.kind = "ok" /\ resp.body.success # Some(TRUE))

VerificationSkipped ==
  (Received /\ ~SecretConfigured) =>
    /\ ~Begun("siteverify")
    /\ Handler.ops # << >> /\ Handler.ops[1] = "adviceMatch"

TokenMissingRefused ==
  (Received /\ SecretConfigured /\ Falsy(Input.turnstileToken)) =>
    /\ Handler.pc = "done"
    /\ Handler.response = Some(Forbidden)
    /\ Handler.ops = << >>

WorkOnlyAfterVerification ==
  (Received /\ SecretConfigured /\ ~NoWorkBegun) =>
    /\ Handler.ops[1] = "siteverify"
    /\ ~Falsy(Input.turnstileToken)

UnconfirmedRefused ==
  \A resp \in VerifyAnswers :
    Verified(resp) =>
      /\ NotConfirming(resp) =>
           /\ Handler'.pc = "done"
           /\ Handler'.response = Some(Forbidden)
           /\ Handler'.ops = << "siteverify" >>
      /\ resp.kind \in { "reject", "badjson" } =>
           /\ Handler'.pc = "done"
           /\ Handler'.response = Some(BadRequest)
           /\ Handler'.ops = << "siteverify" >>

BackendConfigured == ~Falsy(AdviceEnvOf.TCM_BACKEND_URL)

\* the text of a 2xx answer: the body of a plain answer, text or else advice
\* of a JSON answer; empty when there is none
AnswerText(resp) ==
  IF resp.body.type = "plain" THEN OrEmpty(resp.body.text)
  ELSE IF ~Falsy(resp.body.text) THEN Val(resp.body.text)
  ELSE OrEmpty(resp.body.advice)

BackendFailed(resp) == resp.kind # "ok" \/ AnswerText(resp) = << >>

RuleEngineAsked ==
  (Received /\ Handler.pc = "advicePut" /\ BackendConfigured) => Begun("backend")

FallsBackOrUsesText ==
  \A resp \in BackendAnswers :
    (BackendSettles(resp) /\ IsSome(Input.symptoms)) =>
      /\ Handler'.pc = "advicePut"
      /\ Handler'.adviceText =
           IF BackendFailed(resp) THEN buildAdvice(Input, Val(Handler.weather))
           ELSE Some(AnswerText(resp))

C28_BackendFallback == []RuleEngineAsked /\ [][FallsBackOrUsesText]_vars

\* ------------------------------------------------------------------------
\* C29  A request with the body that the result page's fetchAdvice sends,
\* once human verification has passed and the advice cache has been read,
\* is not answered with an error status: the handler either goes on with
\* the lookup or answers 200 with a text/event-stream.
\* ------------------------------------------------------------------------
SentByResultPage == Received /\ IsSome(Input.profile) /\ ~IsSome(Input.city)

IsStream(response) == response.status = 200 /\ response.type = "text/event-stream"

PageRequestGoesOn ==
  (SentByResultPage /\ AdviceMatched) =>
    (IsSome(Handler'.response) => IsStream(Val(Handler'.response)))

C29_PageRequestStreamed == [][PageRequestGoesOn]_vars

\* ------------------------------------------------------------------------
\* C30  GET /api/health answers every request whose weather probe has
\* settled, with ok: true and the time of the answer; when the probe
\* (getWeatherByCity) raised, the answer is still given and reports the
\* probe source 'unknown'; otherwise it reports the snapshot's source.  A
\* request whose probe has not settled has not answered.
\* ------------------------------------------------------------------------
HealthAnswered(c) ==
  /\ IsSome(Responses[c])
  /\ Val(Responses[c]).ok = TRUE
  /\ Val(Responses[c]).ts.fmt = "ms"
  /\ Val(Responses[c]).ts.v \in calls[c].at..now

C30_HealthAlwaysAnswers ==
  \A c \in Calls :
    /\ calls[c].pc = "done" =>
         /\ HealthAnswered(c)
         /\ Val(Responses[c]).weatherProbeCity = calls[c].city
         /\ Val(Responses[c]).weatherProbeSource =
              IF calls[c].raised THEN "unknown" ELSE Val(calls[c].result).source
         /\ ~calls[c].raised => Val(Responses[c]).weatherProbeSource \in { "open-meteo", "mock" }
    /\ calls[c].pc # "done" => ~IsSome(Responses[c])

C30_Witness ==
  /\ calls[1].pc = "done" /\ calls[1].raised /\ calls[1].rejected = Some("put")
  /\ calls[1].city = DEFAULT_PROBE_CITY
  /\ HealthAnswered(1) /\ Val(Responses[1]).weatherProbeSource = "unknown"
  /\ calls[2].pc = "done" /\ calls[2].raised /\ calls[2].rejected = Some("match")
  /\ HealthAnswered(2) /\ Val(Responses[2]).weatherProbeSource = "unknown"

\* ------------------------------------------------------------------------
\* C31  The advice cache is keyed by the complete body.  When the advice
\* key has been looked up, the request is served from the store exactly
\* when an earlier request with the same body stored its advice: it is then
\* answered with that request's text, begins no weather lookup, backend
\* call or store, and leaves the cache as it was.  A body that differs from
\* every stored one, be it only in the city, misses and goes on to the
\* weather lookup.  Every entry lies under the key of the body that
\* stored it.
\* ------------------------------------------------------------------------
StoredFor(body) == { k \in DOMAIN cache.advice : cache.advice[k].body = body }

EntriesUnderOwnKey ==
  \A k \in DOMAIN cache.advice : adviceCacheKey(cache.advice[k].body) = k

ServedFromStoreIffSameBody ==
  AdviceMatched =>
    IF StoredFor(Input) # { }
      THEN /\ Handler'.pc = "done"
           /\ \E k \in StoredFor(Input) :
                Handler'.response = Some(streamText(cache.advice[k].text))
           /\ Handler'.ops = Handler.ops
           /\ cache' = cache
      ELSE /\ ~(IsSome(Handler'.response) /\ IsStream(Val(Handler'.response)))
           /\ IsSome(Input.city) =>
                Handler'.pc = "weatherMatch" /\ Handler'.ops = Append(Handler.ops, "weatherMatch")

C31_AdvicePerBody == []EntriesUnderOwnKey /\ [][ServedFromStoreIffSameBody]_vars

C31_Witness ==
  /\ Received /\ Val(probe.in).n = MaxRequests
  /\ Handler.pc = "done"
  /\ StoredFor(Input) # { }
  /\ ~Begun("weatherMatch") /\ ~Begun("backend") /\ ~Begun("advicePut")
  /\ \E k \in DOMAIN cache.advice :
       /\ cache.advice[k].body # Input
       /\ cache.advice[k].body.city # Input.city
  /\ IsSome(Handler.response) /\ IsStream(Val(Handler.response))

\* ------------------------------------------------------------------------
\* C32  The steps of one getWeatherByCity call.  At every moment the
\* operations a call has begun are an initial part of one of these runs:
\* lookup; then either nothing more (hit), or the mock, or one geocode
\* request followed by the mock, or one geocode and one forecast request
\* followed or not by the mock; then clamp; then one store.  A bypassing
\* call has the same runs without the lookup and the store.  The forecast
\* request is begun only with a location that has coordinates, the store
\* only after a lookup that found nothing, and a call that returns on the
\* miss path has stored before.
\* ------------------------------------------------------------------------
LiveRuns ==
  { << "mock" >>, << "geocode", "mock" >>, << "geocode", "forecast", "mock" >>,
    << "geocode", "forecast" >> }

CachedRuns == { << "match" >> \o run \o << "clamp", "put" >> : run \in LiveRuns }

BypassRuns == { run \o << "clamp" >> : run \in LiveRuns }

IsPrefix(p, q) == Len(p) <= Len(q) /\ SubSeq(q, 1, Len(p)) = p

InOrder(r) ==
  \E run \in (IF disableCacheOf(r.env) THEN BypassRuns ELSE CachedRuns) :
    IsPrefix(r.ops, run)

C32_StepOrder ==
  \A c \in Calls :
    LET r == calls[c]
    IN  /\ InOrder(r)
        /\ Did(r, "forecast") =>
             /\ IsSome(r.location)
             /\ IsSome(Val(r.location).latitude) /\ IsSome(Val(r.location).longitude)
        /\ Did(r, "put") => r.found = Some(None)
        /\ (Returned(c) /\ Did(r, "clamp") /\ ~disableCacheOf(r.env)) =>
             /\ Did(r, "put")
             /\ cacheKeyOf(r) \in DOMAIN cache
        /\ (Returned(c) /\ ~Did(r, "clamp")) =>
             r.ops = << "match" >> /\ IsSome(r.found) /\ IsSome(Val(r.found))

C32_Witness ==
  /\ Returned(1) /\ calls[1].ops = << "match", "geocode", "forecast", "clamp", "put" >>
  /\ Returned(2) /\ calls[2].ops = << "match", "geocode", "forecast", "mock", "clamp", "put" >>

\* ------------------------------------------------------------------------
\* C33  A call that ends as a cache hit has begun nothing but its lookup:
\* no geocode or forecast request, no mock generation, no clamp and no
\* store; and no step of a call that has begun nothing but its lookup
\* changes the cache, so that the hit leaves under every key what was
\* there.
\* ------------------------------------------------------------------------
EndedAsHit(c) == Returned(c) /\ Res(c).cacheStatus = Some("hit")

HitDidOnlyLookup ==
  \A c \in Calls :
    EndedAsHit(c) =>
      /\ calls[c].ops = << "match" >>
      /\ calls[c].location = None
      /\ calls[c].snapshot = None
      /\ cacheKeyOf(calls[c]) \in DOMAIN cache
      /\ calls[c].found = Some(Some(cache[cacheKeyOf(calls[c])]))
           \/ cache[cacheKeyOf(calls[c])].writer # Val(Val(calls[c].found)).writer

HitLeavesCache ==
  \A c \in Calls :
    (calls'[c] # calls[c] /\ calls'[c].ops = << "match" >>) => cache' = cache

C33_HitFrame == []HitDidOnlyLookup /\ [][HitLeavesCache]_vars

C33_Witness ==
  /\ EndedAsHit(2)
  /\ calls[1].pc = "done" /\ 1 \in calls[2].doneBefore
  /\ Val(Val(calls[2].found)).writer = 1
  /\ Res(2).source = "open-meteo"
  /\ DOMAIN cache = { cacheKeyOf(calls[2]) }

\* ------------------------------------------------------------------------
\* C34  When a call whose provider setting permits the live lookup has
\* failed in it and has stored the mock fallback, under the key tagged
\* 'open-meteo', every call that is made after its return for the same
\* city, in the same bucket, with caching enabled and under that key, and
\* that returns, is a hit with source 'mock' and has made no live attempt.
\* ------------------------------------------------------------------------
StoredFallback(a) ==
  /\ Returned(a)
  /\ tryOpenMeteoOf(calls[a].env)
  /\ Did(calls[a], "geocode") /\ Did(calls[a], "mock") /\ Did(calls[a], "put")
  /\ providerKeyOf(calls[a].env) = "open-meteo"

LaterSameSlot(a, c) ==
  /\ a \in calls[c].doneBefore
  /\ Returned(c)
  /\ ~disableCacheOf(calls[c].env)
  /\ cacheKeyOf(calls[c]) = cacheKeyOf(calls[a])

C34_FallbackSticks ==
  \A a \in DOMAIN calls, c \in DOMAIN calls :
    (StoredFallback(a) /\ LaterSameSlot(a, c)) =>
      /\ Res(c).cacheStatus = Some("hit")
      /\ Res(c).source = "mock"
      /\ calls[c].ops = << "match" >>

\* ------------------------------------------------------------------------
\* C35 as stated: a call whose provider setting is none of 'auto',
\* 'open-meteo' and 'mock' returns a mock snapshot.
\* ------------------------------------------------------------------------
Unrecognized(env) ==
  providerSettingOf(env) \notin { AUTO, SourceChars("open-meteo"), SourceChars("mock") }

C35_UnrecognizedReturnsMock ==
  \A c \in Calls :
    (Returned(c) /\ Unrecognized(calls[c].env)) => Res(c).source = "mock"

\* C35  A call whose provider setting is none of 'auto', 'open-meteo' and
\* 'mock' (compared ignoring case) makes no live attempt and works under
\* the key tagged 'open-meteo', the key an 'auto' call for the same city and
\* bucket uses.  When it does not hit, what it returns is the mock snapshot,
\* which with caching enabled it has stored under that key; when it hits,
\* it returns what is stored there, which is a live snapshot if an 'auto' or
\* 'open-meteo' call stored it.
C35_UnrecognizedSharesSlot ==
  \A c \in Calls :
    LET r == calls[c]
    IN  (r.pc # "idle" /\ Unrecognized(r.env)) =>
          /\ ~Did(r, "geocode") /\ ~Did(r, "forecast")
          /\ cacheKeyOf(r) = buildWeatherCacheKey("open-meteo", normalizedOf(r.city), r.bucket)
          /\ cacheKeyOf(r) = cacheKeyOf([ r EXCEPT !.env.WEATHER_PROVIDER = None ])
          /\ (Returned(c) /\ Res(c).cacheStatus # Some("hit")) =>
               /\ Res(c).source = "mock" /\ Did(r, "mock")
               /\ ~disableCacheOf(r.env) =>
                    (Did(r, "match") /\ cacheKeyOf(r) \in DOMAIN cache)
          /\ (Returned(c) /\ Res(c).cacheStatus = Some("hit")) =>
               Res(c).source = parseJson(Val(Val(r.found)).payload).source

C35_Witness ==
  /\ Returned(1) /\ ~Unrecognized(calls[1].env) /\ Res(1).source = "open-meteo"
  /\ Returned(2) /\ Unrecognized(calls[2].env)
  /\ Res(2).cacheStatus = Some("hit") /\ Res(2).source = "open-meteo"
  /\ Val(Val(calls[2].found)).writer = 1

\* ------------------------------------------------------------------------
\* C36  The temperature, the humidity, the condition (the label of the
\* weather code) and observedAt of a live snapshot are those of one reading
\* of the forecast body: the current reading when it has both temperature
\* and humidity, and otherwise one index of the hourly series for all four,
\* whatever the current reading holds.
\* ------------------------------------------------------------------------
CurrentReading ==
  [ temperature |-> BodyCurrent.temperature_2m,
    humidity |-> BodyCurrent.relative_humidity_2m,
    code |-> BodyCurrent.weather_code,
    time |-> BodyCurrent.time ]

HourlyReading(i) ==
  [ temperature |-> Element(BodyHourly.temperature_2m, i),
    humidity |-> Element(BodyHourly.relative_humidity_2m, i),
    code |-> Element(BodyHourly.weather_code, i),
    time |-> Element(BodyHourly.time, i) ]

HourlyLength == IF IsSome(BodyHourly.time) THEN Len(Val(BodyHourly.time)) ELSE 1

IsReading(snapshot, reading) ==
  /\ reading.temperature = Some(snapshot.temperatureC)
  /\ reading.humidity = Some(snapshot.humidity)
  /\ snapshot.condition =
       IF IsSome(reading.code) THEN TableLabel(Val(reading.code)) ELSE "unknown"
  /\ reading.time = snapshot.observedAt

C36_OneReading ==
  (IsSome(probe.out) /\ Val(probe.out).kind = "value") =>
    LET snapshot == Val(Val(probe.out).value)
    IN  IF CurrentComplete
          THEN IsReading(snapshot, CurrentReading)
          ELSE \E i \in 1..HourlyLength : IsReading(snapshot, HourlyReading(i))

C36_Witness ==
  /\ IsSome(probe.out) /\ Val(probe.out).kind = "value"
  /\ BodyCurrent.temperature_2m = Some(45)
  /\ BodyCurrent.relative_humidity_2m = None
  /\ BodyCurrent.time = Some(Minute(60))
  /\ IsReading(Val(Val(probe.out).value), HourlyReading(2))
  /\ Val(Val(probe.out).value).temperatureC = 21
  /\ Val(Val(probe.out).value).condition = "light-snow"

\* ------------------------------------------------------------------------
\* C37  The placeholder stands in exactly for the empty raw city.  A raw
\* city that is not empty is trimmed and lower-cased as it is; when it
\* consists of whitespace only, its normalized city is the empty string,
\* the cache key has an empty city part, and the mock snapshot carries the
\* values of the hash of the empty string (2166136261: 19 degrees, 67
\* percent, 'showers').
\* ------------------------------------------------------------------------
IsBlank(city) == city # << >> /\ \A i \in 1..Len(city) : city[i] = " "

C37_BlankCityNotReplaced ==
  \A c \in Calls :
    Returned(c) =>
      /\ (Res(c).normalizedCity = Some(PLACEHOLDER_CITY)) <=> (calls[c].city = << >>)
      /\ IsBlank(calls[c].city) =>
           /\ Res(c).normalizedCity = Some(<< >>)
           /\ Res(c).cacheKey =
                Some(KeyPrefix \o << ":", "v", "3", ":" >>
                       \o SourceChars(ClaimProviderKey(calls[c]))
                       \o << ":", ":" >>
                       \o NumToStr(ClaimBucket(calls[c])))
           /\ Res(c).source = "mock" =>
                /\ Res(c).temperatureC = 19
                /\ Res(c).humidity = 67
                /\ Res(c).condition = "showers"

C37_Witness ==
  /\ Returned(1) /\ calls[1].city = << " ", " " >>
  /\ Res(1).cacheStatus = Some("miss") /\ Res(1).normalizedCity = Some(<< >>)
  /\ Returned(2) /\ calls[2].city = << " " >>
  /\ Res(2).cacheStatus = Some("hit") /\ Res(2).temperatureC = 19
  /\ Res(2).cacheKey = Res(1).cacheKey

\* ------------------------------------------------------------------------
\* C38  streamText delivers the whole text: the data events before [DONE]
\* carry consecutive pieces of the text, in order and without overlap, each
\* of at most 61 characters, and every character of the text that is not
\* whitespace lies in one of them, also in texts with more than 60
\* characters in a row without whitespace.
\* ------------------------------------------------------------------------
StreamedText == Val(probe.in)

Emitted == Val(probe.out).events

\* what a data event carries between 'data: ' and the blank line
Payload(event) == SubSeq(event, Len(DataPrefix) + 1, Len(event) - Len(EventEnd))

TextEvents == SubSeq(Emitted, 1, Len(Emitted) - 1)

Pieces == Val(probe.out).spans

C38_WholeTextDelivered ==
  (IsSome(probe.out) /\ Pieces # << >>) =>
    /\ Len(TextEvents) = Len(Pieces)
    /\ \A i \in 1..Len(Pieces) :
         /\ Pieces[i].from <= Pieces[i].to
         /\ Pieces[i].to - Pieces[i].from + 1 <= CHUNK_CHARS + 1
         /\ Payload(TextEvents[i]) = SubSeq(StreamedText, Pieces[i].from, Pieces[i].to)
         /\ i > 1 => Pieces[i - 1].to < Pieces[i].from
    /\ \A p \in 1..Len(StreamedText) :
         StreamedText[p] \notin WhitespaceChars =>
           \E i \in 1..Len(Pieces) : Pieces[i].from <= p /\ p <= Pieces[i].to

\* ------------------------------------------------------------------------
\* C39  An advice stream ends with one [DONE] event, enqueued after every
\* text event and followed by close.  fetchAdvice always returns, and with
\* loading = false, whether it saw [DONE], the stream ended without it, the
\* response was not ok or the request failed; nothing that arrives after
\* [DONE] is appended to streamOutput.
\* ------------------------------------------------------------------------
DoneEvent == [ op |-> "enqueue", bytes |-> encode(DataPrefix \o DoneMark \o EventEnd) ]

StreamEndsWithDone ==
  Client.controller # << >> =>
    LET ops == Client.controller
    IN  /\ Len(ops) >= 2
        /\ ops[Len(ops)].op = "close"
        /\ ops[Len(ops) - 1] = DoneEvent
        /\ \A i \in 1..(Len(ops) - 2) : ops[i].op = "enqueue" /\ ops[i] # DoneEvent

ReturnedNotLoading == Client.pc = "returned" => ~Client.loading

NothingStrayAppended == \A i \in 1..Len(Client.streamOutput) : Client.streamOutput[i] # "z"

OutputFrozenAfterDone ==
  (Client.sawDone /\ IsSome(probe'.out)) => Val(probe'.out).streamOutput = Client.streamOutput

\* how far fetchAdvice has come: the statement it is at, then the bytes read
Progress(client) ==
  (CASE client.pc = "idle" -> 0
     [] client.pc = "fetching" -> 1
     [] client.pc = "reading" -> 2
     [] OTHER -> 3) * (Len(client.wire) + Len(encode(StrayEvent)) + 1) + client.pos

\* every step brings the call closer to its return, and the distance is
\* bounded by the length of the wire
EveryStepAdvances ==
  /\ Progress(Val(probe'.out)) > Progress(Client)
  /\ Val(probe'.out).pos <= Len(Val(probe'.out).wire)

\* a call that has not returned is never stuck: to whatever the fetch or
\* the read settles, a step handles it
NotStuck ==
  Client.pc # "returned" =>
    \/ Client.pc = "idle"
    \/ Client.pc = "fetching" /\ Request.answer \in Answers
    \/ MoreToRead
    \/ AtEnd

RECURSIVE Concat(_)
Concat(pieces) == IF pieces = << >> THEN << >> ELSE Head(pieces) \o Concat(Tail(pieces))

DataLine(chunk) ==
  IF firstAt(chunk, << "\n" >>) = 0 THEN chunk ELSE SubSeq(chunk, 1, firstAt(chunk, << "\n" >>) - 1)

SentPayloads(text) == [ i \in 1..Len(streamChunks(text)) |-> DataLine(streamChunks(text)[i]) ]

C40_CutIndependent ==
  Request.answer = "stream" =>
    /\ Client.pc = "reading" =>
         IsPrefix(Client.streamOutput, Concat(SentPayloads(Request.text)))
    /\ Client.pc = "returned" =>
         /\ Client.sawDone
         /\ Client.streamOutput = Concat(SentPayloads(Request.text))

\* the whole text arrived although reads ended inside a character, between
\* the line feeds of a terminator and inside an event
C40_Witness ==
  /\ Request.answer = "stream"
  /\ Client.pc = "returned"
  /\ Client.sawDone
  /\ Client.torn = { "character", "terminator", "event" }
  /\ Len(streamChunks(Request.text)) = 2
  /\ Client.streamOutput = Concat(SentPayloads(Request.text))
  /\ \E i \in 1..Len(Client.streamOutput) : Client.streamOutput[i] = WideChar
====
